---------------------------- MODULE Spec2Model ----------------------------
(***************************************************************************)
(* A model of the go-eva daemon: the cloud WebSocket client (package       *)
(* cloud) and the DOA tracker (package doa).                               *)
(*                                                                         *)
(* Cloud client.  Every goroutine of the client is a process with a        *)
(* program counter; every critical section of c.mu is one atomic action    *)
(* (no section blocks), every network operation (dial, read, write) is an  *)
(* action of its own, so that the other goroutines interleave exactly      *)
(* where the Go scheduler lets them.  Connection handles are numbered in   *)
(* dial order: handle h is the h-th connection the peer accepted.          *)
(*                                                                         *)
(* Tracker.  poll() is one action (its body after GetDOA runs under t.mu). *)
(* Floating point values are fixed point integers, in units of 1/100.      *)
(***************************************************************************)
EXTENDS Integers, Sequences, FiniteSets, TLC

\* ------------------------------------------------------------------ bounds
\* The moves the client's environment makes in one behaviour: calls of
\* SendFrame / SendDOA / Close, cancellation of the parent scope, messages
\* and closes by the peer, failed dials, ticks of a ping timer.
MaxEvents == 4
\* The tracker's environment in one behaviour: poll cycles (ticks of the
\* poll ticker), and the moves made between them (changes of the source,
\* receives of the subscribers).
MaxPolls == 6
MaxChanges == 2
\* Poll cycles beyond the capacity of a subscriber's channel.
MaxOverflow == 2
\* The hub: ticks of its ticker, connections upgraded, and moves of its
\* environment (observers going away, Close, cancellation).
MaxTicks == 3
MaxConns == 2
MaxHubMoves == 2
\* Calls of GetDOA() and Close() on the USB source.
MaxUsbCalls == 4
\* Subscribers of the tracker.
MaxSubs == 2
\* The polls and the calls of the readers in the statement-level tracker.
MaxAtomicPolls == 2
MaxReads == 4
\* The polls of the tracker while its smoothing is followed.
MaxEmaPolls == 3
\* The polls and the calls while the mutexes are followed.
MaxGuardLoops == 1
MaxGuardCalls == 2
\* The length of the strings in the payloads given to the codec.
MaxStr == 2
\* Failed dials while the backoff is followed.
MaxFails == 4
\* Messages handled and setters called while c.mu is followed.
MaxLockMoves == 3
\* The largest angle given to NormalizeAngle, in units of 1/100: beyond 3 pi.
MaxAngle == 1000

\* ------------------------------------------------------- program constants
\* DefaultConfig(): ReconnectBackoff and MaxBackoff, in seconds.
ReconnectBackoff == 1
MaxBackoff == 30

\* Subscribe(): make(chan Result, 10).
SinkCap == 10
\* calculateConfidence: the window of the stability check, and its variance
\* threshold 0.01 as the sum of 5 squared differences, in units of 1/10000.
StabilityWindow == 5
VarianceSumLimit == 500
\* math.Pi / 2, in units of 1/100.
HalfPi == 157
\* The zero time.Time, and the duration time.Since returns from it (it
\* saturates at the largest Duration).
ZeroTime == -1
MaxDuration == 1000000

Nil == 0
LoopTask == "loop"
Senders == {"frame", "doa"}
Tasks == Senders \cup {LoopTask}
Kinds == {"motor", "emotion", "speak", "config"}

\* What the peer may put on the wire: an envelope that parses (ok) with a
\* type and a payload that unmarshals (dataOk) or not, or bytes that do not
\* parse at all.
Payloads == {1, 2}
Messages ==
    [ok : {TRUE}, type : Kinds, dataOk : BOOLEAN, payload : Payloads]
      \cup [ok : {TRUE}, type : {"ping", "pong"}, dataOk : {TRUE}, payload : {1}]
      \cup [ok : {FALSE}, type : {"motor"}, dataOk : {FALSE}, payload : {1}]
NoMsg == [ok |-> FALSE, type |-> "none", dataOk |-> FALSE, payload |-> 0]

VARIABLES
    \* Client fields
    started,            \* Connect() has run: c.cancel is set
    ctxDone,            \* the scope derived in Connect() is cancelled
    conn,               \* c.conn: a handle, or Nil
    connected,          \* c.connected
    callbacks,          \* the kinds whose on<Kind> slot is set
    messagesSent, messagesReceived, reconnects,
    \* the network
    open,               \* handles dialed and not yet Close()d by the client
    peerClosed,         \* handles the peer has closed (or that broke)
    dials,              \* connections accepted by the peer so far
    \* connectionLoop / readLoop / handleMessage goroutine
    loopPc, dconn, rconn, backoff, inMsg,
    \* pingLoop goroutines, one per successful connect(): [pc, conn]
    ping,
    \* SendMessage callers (the two senders and the loop's pong)
    spc, sconn, sres,
    \* Close() caller
    closePc,
    closeReturned,      \* some Close() call has returned
    budget,             \* environment moves left
    peerMsgs,           \* what the peer may send
    \* history (observations, not program state)
    calls,              \* callback invocations, in order: <<kind, payload>>
    pongs,              \* handles a pong was written to
    lost,               \* an installed connection was torn down and no dial followed yet
    lostAt,             \* reconnects and backoff when the last connection was torn down
    ccfg                \* c.cfg: ReconnectBackoff and MaxBackoff

VARIABLES
    \* Tracker fields
    cfg,                \* TrackerConfig
    latest,             \* t.latest
    history,            \* t.history
    speakingLatchedAt,  \* t.speakingLatchedAt
    pollCount, pollErrorCount,
    subs,               \* t.subs: channel |-> the Results buffered in it
    chanCount,          \* channels made by Subscribe() so far
    closes,             \* channel |-> the number of close(ch) executed on it
    noops,              \* calls of Unsubscribe that found their channel not in t.subs
    runPc,              \* Run: "idle", "started", "loop", "done" (t.done closed)
    cancelSet,          \* t.cancel != nil
    runCtxDone,         \* the context of Run is cancelled
    stopPc,             \* Stop: "idle", "wait" (<-t.done), "close"
    stopReturned,       \* the last call of Stop() has returned
    stopSaw,            \* runPc when Stop() was last called
    target,             \* what the last GetTarget() returned
    \* the source (a mock: it returns what it was last set to) and the clock
    src, now,
    pollsLeft, changesLeft,
    spokeAt,            \* history: the times of the successful polls with speaking = true
    tmu,                \* t.mu: "free", or "poll" while poll() holds the write lock
    pollPc,             \* poll(): "idle", "locked", "latched", "stored", "appended", "notified"
    reading,            \* poll()'s locals: the reading and speakingLatched
    got,                \* what the last GetLatest() returned, and the number of calls
    stats,              \* what the last Stats() returned, and the number of calls
    recv,               \* the Result a subscriber last received
    made                \* history: the Results poll() has stored

trackerVars == <<cfg, latest, history, speakingLatchedAt, pollCount,
                 pollErrorCount, subs, chanCount, closes, noops, runPc,
                 cancelSet, runCtxDone, stopPc, stopReturned, stopSaw, target,
                 src,
                 now, pollsLeft, changesLeft, spokeAt, tmu, pollPc, reading,
                 got, stats, recv, made>>

VARIABLES
    \* USBSource
    usbCfg,             \* USBSourceConfig
    usb,                \* closed, dev != nil, healthy, consecutiveErrors, reconnectBackoff
    usbRes,             \* what the last GetDOA() returned
    usbSaw,             \* how the device answers the transfers of the last GetDOA()
    closeRes,           \* what the calls of Close() returned, in order
    transfers,          \* control transfers made
    reopens,            \* openDevice attempts made by reconnect
    usbLeft,            \* calls the source's users may still make
    usbPc,              \* GetDOA: "idle", or "sleep" in reconnect's time.Sleep, under u.mu
    slept,              \* the delay reconnect last slept
    usbCtxDone          \* the context given to GetDOA is cancelled

usbVars == <<usbCfg, usb, usbRes, usbSaw, closeRes, transfers, reopens, usbLeft,
             usbPc, slept, usbCtxDone>>

VARIABLES
    \* WSHub
    hubPc,              \* Run: "idle", "started", "loop", "done" (h.done closed)
    hubCancelSet,       \* h.cancel != nil
    hubCtxDone,         \* the context of Run is cancelled
    lastSpeaking,       \* Run's lastSpeaking
    clients,            \* h.clients
    connCount,          \* connections upgraded so far
    connClosed,         \* connections closed by Close()
    handlerPc,          \* handleConnection of each connection
    hubClosePc,         \* Close: "idle", "wait" (<-h.done), "close"
    hubCloseReturned,   \* the last call of Close() has returned
    hubCloseSaw,        \* hubPc when Close() was last called
    bcast,              \* the messages broadcast, in order
    ticks,              \* ticks of Run's ticker taken
    hubLeft,            \* moves the hub's environment may still make
    httpLog,            \* the requests UpgradeHandler served, with their responses
    bcPc,               \* broadcast: "idle", "range" (under h.mu, shared), "write" (in WriteMessage)
    bcTodo,             \* the connections the range over h.clients has not reached
    bcCur,              \* the connection WriteMessage is writing to
    slow,               \* the connections whose socket takes no more bytes
    delivered           \* connection |-> the broadcast messages written to it

VARIABLES
    \* the message codec
    codecIn,            \* the type, payload and time NewMessage is given
    codecMsg,           \* the Message made
    codecBytes,         \* its serialized form
    codecParsed,        \* what ParseMessage made of it
    codecPc             \* "new", "bytes", "parse", "done"

codecVars == <<codecIn, codecMsg, codecBytes, codecParsed, codecPc>>

VARIABLES
    \* the coordinate math
    normIn,             \* the angle NormalizeAngle is given
    normOut,            \* what it returned
    normDone            \* it has returned

angleVars == <<normIn, normOut, normDone>>

VARIABLES
    \* c.mu and the callbacks
    mu,                 \* c.mu: "free", or the goroutine that holds it
    slots,              \* the on<Kind> fields: a function, or Nil
    hmPc,               \* handleMessage: "idle", "lock", "locked", "switch", "callback", "cbLocked"
    hmMsg,              \* the kind of the message handled
    snap,               \* handleMessage's copies of the slots
    slotsAtSnap,        \* the slots when the copies were made
    cbOp,               \* the call the running callback has still to make
    setPc, setArg,      \* a setter called from another goroutine
    invoked,            \* the callbacks called, in order: <<kind, function>>
    isConnectedCalls,   \* calls of IsConnected that returned
    lockLeft            \* messages and setter calls left

VARIABLES
    \* The tracker's and the source's mutexes, and the calls that take them
    held,               \* mutex |-> [w: the task that holds it, r: the tasks that hold it shared]
    pending,            \* mutex |-> the tasks blocked in Lock()
    prog,               \* task |-> the statements of the call it is in
    gpc,                \* task |-> the statement it is at; 0: in no call
    touched,            \* the accesses of fields the last step made: by whom, and what the task held
    guardCtxDone,       \* the context of Run is cancelled
    guardDone,          \* t.done is closed
    loopsLeft, callsLeft

guardVars == <<held, pending, prog, gpc, touched, guardCtxDone, guardDone,
               loopsLeft, callsLeft>>

lockVars == <<mu, slots, hmPc, hmMsg, snap, slotsAtSnap, cbOp, setPc, setArg,
              invoked, isConnectedCalls, lockLeft>>

hubVars == <<hubPc, hubCancelSet, hubCtxDone, lastSpeaking, clients,
             connCount, connClosed, handlerPc, hubClosePc, hubCloseReturned,
             hubCloseSaw, bcast, ticks, hubLeft, httpLog, bcPc, bcTodo, bcCur,
             slow, delivered>>

cloudVars == <<started, ctxDone, conn, connected, callbacks, messagesSent,
               messagesReceived, reconnects, open, peerClosed, dials, loopPc,
               dconn, rconn, backoff, inMsg, ping, spc, sconn, sres, closePc,
               closeReturned, budget, peerMsgs, calls, pongs, lost, lostAt,
               ccfg>>

vars == <<cloudVars, trackerVars, usbVars, hubVars, codecVars, angleVars, lockVars,
          guardVars>>

\* What the steps of one component leave alone.
nonCloudVars == <<trackerVars, usbVars, hubVars, codecVars, angleVars, lockVars,
    guardVars>>
nonTrackerVars == <<cloudVars, usbVars, hubVars, codecVars, angleVars, lockVars,
    guardVars>>
nonUsbVars == <<cloudVars, trackerVars, hubVars, codecVars, angleVars, lockVars,
    guardVars>>
nonHubVars == <<cloudVars, trackerVars, usbVars, codecVars, angleVars, lockVars,
    guardVars>>
nonCodecVars == <<cloudVars, trackerVars, usbVars, hubVars, angleVars, lockVars,
    guardVars>>
nonAngleVars == <<cloudVars, trackerVars, usbVars, hubVars, codecVars, lockVars,
    guardVars>>
nonGuardVars == <<cloudVars, trackerVars, usbVars, hubVars, codecVars, angleVars,
    lockVars>>
nonLockVars == <<cloudVars, trackerVars, usbVars, hubVars, codecVars, angleVars,
    guardVars>>

\* ------------------------------------------------------------ cloud client

\* DefaultConfig().
DefaultConfig == [reconnectBackoff |-> ReconnectBackoff, maxBackoff |-> MaxBackoff]

\* NewClient(cfg): no connection, all counters zero.
NewClient(c) ==
    /\ ccfg = c
    /\ started = FALSE
    /\ ctxDone = FALSE
    /\ conn = Nil
    /\ connected = FALSE
    /\ messagesSent = 0
    /\ messagesReceived = 0
    /\ reconnects = 0
    /\ open = {}
    /\ peerClosed = {}
    /\ dials = 0
    /\ loopPc = "init"
    /\ dconn = Nil
    /\ rconn = Nil
    /\ backoff = ccfg.reconnectBackoff
    /\ inMsg = NoMsg
    /\ ping = << >>
    /\ spc = [t \in Tasks |-> "idle"]
    /\ sconn = [t \in Tasks |-> Nil]
    /\ sres = [t \in Tasks |-> "none"]
    /\ closePc = "idle"
    /\ closeReturned = FALSE
    /\ calls = << >>
    /\ pongs = {}
    /\ lost = FALSE
    /\ lostAt = [reconnects |-> 0, backoff |-> 0]

\* NewClient(DefaultConfig()).
CloudInit == NewClient(DefaultConfig)

\* Configurations with a small ceiling, as the tests use (50 ms and
\* 100 ms): the ceiling is reached after one doubling or after two, or
\* it is below the initial delay, which nothing forbids.
SmallConfigs ==
    { [reconnectBackoff |-> 1, maxBackoff |-> 2],
      [reconnectBackoff |-> 1, maxBackoff |-> 3],
      [reconnectBackoff |-> 2, maxBackoff |-> 5],
      [reconnectBackoff |-> 3, maxBackoff |-> 2] }

Min(a, b) == IF a < b THEN a ELSE b

\* closeConnection(), a variant that closes the handle and resets nothing.
CloseConnectionNoReset ==
    /\ connected' = connected
    /\ conn' = conn
    /\ open' = open \ {conn}
    /\ lost' = (lost \/ (conn # Nil /\ ~ctxDone))
    /\ lostAt' = IF conn # Nil /\ ~ctxDone
                   THEN [reconnects |-> reconnects, backoff |-> backoff]
                   ELSE lostAt

\* closeConnection(), a variant that forgets the handle without closing it.
CloseConnectionLeak ==
    /\ connected' = FALSE
    /\ conn' = Nil
    /\ open' = open
    /\ lost' = (lost \/ (conn # Nil /\ ~ctxDone))
    /\ lostAt' = IF conn # Nil /\ ~ctxDone
                   THEN [reconnects |-> reconnects, backoff |-> backoff]
                   ELSE lostAt

\* closeConnection(): under c.mu, connected = false and, when c.conn is set,
\* c.conn.Close() and c.conn = nil.
CloseConnection ==
    /\ connected' = FALSE
    /\ conn' = Nil
    /\ open' = open \ {conn}
    /\ lost' = (lost \/ (conn # Nil /\ ~ctxDone))
    /\ lostAt' = IF conn # Nil /\ ~ctxDone
                   THEN [reconnects |-> reconnects, backoff |-> backoff]
                   ELSE lostAt

\* Connect(ctx): derive the scope, start connectionLoop.
Connect ==
    /\ ~started
    /\ started' = TRUE
    /\ loopPc' = "top"
    /\ UNCHANGED <<ctxDone, conn, connected, callbacks, messagesSent,
                   messagesReceived, reconnects, open, peerClosed, dials,
                   dconn, rconn, backoff, inMsg, ping, spc, sconn, sres,
                   closePc, closeReturned, budget, peerMsgs, calls, pongs,
                   lost, lostAt, ccfg>>
    /\ UNCHANGED nonCloudVars

\* The scope handed to Connect() is cancelled by its owner.
ParentCancel ==
    /\ started
    /\ ~ctxDone
    /\ budget > 0
    /\ budget' = budget - 1
    /\ ctxDone' = TRUE
    /\ UNCHANGED <<started, conn, connected, callbacks, messagesSent,
                   messagesReceived, reconnects, open, peerClosed, dials,
                   loopPc, dconn, rconn, backoff, inMsg, ping, spc, sconn,
                   sres, closePc, closeReturned, peerMsgs, calls, pongs,
                   lost, lostAt, ccfg>>
    /\ UNCHANGED nonCloudVars

\* Close(), first half: c.cancel().
CloseCancel ==
    /\ started
    /\ closePc = "idle"
    /\ budget > 0
    /\ ctxDone' = TRUE
    /\ closePc' = "cancelled"
    /\ budget' = budget - 1
    /\ UNCHANGED <<started, conn, connected, callbacks, messagesSent,
                   messagesReceived, reconnects, open, peerClosed, dials,
                   loopPc, dconn, rconn, backoff, inMsg, ping, spc, sconn,
                   sres, closeReturned, peerMsgs, calls, pongs, lost,
                   lostAt, ccfg>>
    /\ UNCHANGED nonCloudVars

\* Close(), second half: c.closeConnection(); return nil.
CloseConn ==
    /\ closePc = "cancelled"
    /\ CloseConnection
    /\ closePc' = "idle"
    /\ closeReturned' = TRUE
    /\ UNCHANGED <<started, ctxDone, callbacks, messagesSent, messagesReceived,
                   reconnects, peerClosed, dials, loopPc, dconn, rconn,
                   backoff, inMsg, ping, spc, sconn, sres, budget, peerMsgs,
                   calls, pongs, ccfg>>
    /\ UNCHANGED nonCloudVars

\* The peer closes a connection it accepted (or the link breaks).
PeerClose(h) ==
    /\ h \in open \ peerClosed
    /\ budget > 0
    /\ peerClosed' = peerClosed \cup {h}
    /\ budget' = budget - 1
    /\ UNCHANGED <<started, ctxDone, conn, connected, callbacks, messagesSent,
                   messagesReceived, reconnects, open, dials, loopPc, dconn,
                   rconn, backoff, inMsg, ping, spc, sconn, sres, closePc,
                   closeReturned, peerMsgs, calls, pongs, lost, lostAt,
                   ccfg>>
    /\ UNCHANGED nonCloudVars

\* connectionLoop, top of the for: select on ctx.Done() with a default.
LoopTop ==
    /\ loopPc = "top"
    /\ IF ctxDone
         THEN /\ CloseConnection
              /\ loopPc' = "done"
         ELSE /\ loopPc' = "dial"
              /\ UNCHANGED <<conn, connected, open, lost, lostAt>>
    /\ UNCHANGED <<started, ctxDone, callbacks, messagesSent, messagesReceived,
                   reconnects, peerClosed, dials, dconn, rconn, backoff,
                   inMsg, ping, spc, sconn, sres, closePc, closeReturned,
                   budget, peerMsgs, calls, pongs, ccfg>>
    /\ UNCHANGED nonCloudVars

\* connect(): dialer.DialContext(ctx, ...) returns a connection.  A dial
\* under a cancelled scope fails, so this needs the scope live when it returns.
DialOK ==
    /\ loopPc = "dial"
    /\ ~ctxDone
    /\ dials' = dials + 1
    /\ open' = open \cup {dials + 1}
    /\ dconn' = dials + 1
    /\ loopPc' = "install"
    /\ lost' = FALSE
    /\ UNCHANGED <<started, ctxDone, conn, connected, callbacks, messagesSent,
                   messagesReceived, reconnects, peerClosed, rconn, backoff,
                   inMsg, ping, spc, sconn, sres, closePc, closeReturned,
                   budget, peerMsgs, calls, pongs, lostAt, ccfg>>
    /\ UNCHANGED nonCloudVars

\* connect(): DialContext returns an error (the scope is cancelled, or the
\* peer is unreachable); connectionLoop goes to its backoff select.
DialFail ==
    /\ loopPc = "dial"
    /\ ctxDone \/ budget > 0
    /\ budget' = IF ctxDone THEN budget ELSE budget - 1
    /\ loopPc' = "backoff"
    /\ lost' = FALSE
    /\ UNCHANGED <<started, ctxDone, conn, connected, callbacks, messagesSent,
                   messagesReceived, reconnects, open, peerClosed, dials,
                   dconn, rconn, backoff, inMsg, ping, spc, sconn, sres,
                   closePc, closeReturned, peerMsgs, calls, pongs, lostAt,
                   ccfg>>
    /\ UNCHANGED nonCloudVars

\* connect(), after the dial: under c.mu, c.conn = conn, c.connected = true;
\* go c.pingLoop(ctx); back in connectionLoop, backoff is reset and readLoop
\* is entered.
Install ==
    /\ loopPc = "install"
    /\ conn' = dconn
    /\ connected' = TRUE
    /\ ping' = Append(ping, [pc |-> "wait", conn |-> Nil])
    /\ backoff' = ccfg.reconnectBackoff
    /\ dconn' = Nil
    /\ loopPc' = "readTop"
    /\ UNCHANGED <<started, ctxDone, callbacks, messagesSent, messagesReceived,
                   reconnects, open, peerClosed, dials, rconn, inMsg, spc,
                   sconn, sres, closePc, closeReturned, budget, peerMsgs,
                   calls, pongs, lost, lostAt, ccfg>>
    /\ UNCHANGED nonCloudVars

\* connectionLoop, backoff select, a variant that doubles without a ceiling.
BackoffElapsedUncapped ==
    /\ loopPc = "backoff"
    /\ backoff' = 2 * backoff
    /\ reconnects' = reconnects + 1
    /\ loopPc' = "top"
    /\ UNCHANGED <<started, ctxDone, conn, connected, callbacks, messagesSent,
                   messagesReceived, open, peerClosed, dials, dconn, rconn,
                   inMsg, ping, spc, sconn, sres, closePc, closeReturned,
                   budget, peerMsgs, calls, pongs, lost, lostAt, ccfg>>
    /\ UNCHANGED nonCloudVars

\* connectionLoop, backoff select: time.After(backoff) fires; backoff doubles,
\* capped at MaxBackoff, and reconnects is incremented.
BackoffElapsed ==
    /\ loopPc = "backoff"
    /\ backoff' = Min(2 * backoff, ccfg.maxBackoff)
    /\ reconnects' = reconnects + 1
    /\ loopPc' = "top"
    /\ UNCHANGED <<started, ctxDone, conn, connected, callbacks, messagesSent,
                   messagesReceived, open, peerClosed, dials, dconn, rconn,
                   inMsg, ping, spc, sconn, sres, closePc, closeReturned,
                   budget, peerMsgs, calls, pongs, lost, lostAt, ccfg>>
    /\ UNCHANGED nonCloudVars

\* connectionLoop, backoff select: ctx.Done(); return.
BackoffCancelled ==
    /\ loopPc = "backoff"
    /\ ctxDone
    /\ loopPc' = "done"
    /\ UNCHANGED <<started, ctxDone, conn, connected, callbacks, messagesSent,
                   messagesReceived, reconnects, open, peerClosed, dials,
                   dconn, rconn, backoff, inMsg, ping, spc, sconn, sres,
                   closePc, closeReturned, budget, peerMsgs, calls, pongs,
                   lost, lostAt, ccfg>>
    /\ UNCHANGED nonCloudVars

\* readLoop, top of the for: select on ctx.Done() with a default.  On Done
\* readLoop returns and connectionLoop is back at the top of its for.
ReadTop ==
    /\ loopPc = "readTop"
    /\ loopPc' = IF ctxDone THEN "top" ELSE "readSnap"
    /\ UNCHANGED <<started, ctxDone, conn, connected, callbacks, messagesSent,
                   messagesReceived, reconnects, open, peerClosed, dials,
                   dconn, rconn, backoff, inMsg, ping, spc, sconn, sres,
                   closePc, closeReturned, budget, peerMsgs, calls, pongs,
                   lost, lostAt, ccfg>>
    /\ UNCHANGED nonCloudVars

\* readLoop: under c.mu, conn := c.conn; a nil conn returns.
ReadSnap ==
    /\ loopPc = "readSnap"
    /\ rconn' = conn
    /\ loopPc' = IF conn = Nil THEN "top" ELSE "read"
    /\ UNCHANGED <<started, ctxDone, conn, connected, callbacks, messagesSent,
                   messagesReceived, reconnects, open, peerClosed, dials,
                   dconn, backoff, inMsg, ping, spc, sconn, sres, closePc,
                   closeReturned, budget, peerMsgs, calls, pongs, lost,
                   lostAt, ccfg>>
    /\ UNCHANGED nonCloudVars

\* readLoop: conn.ReadMessage() returns a message; messagesReceived.Add(1).
\* ReadMessage does not look at the scope: it returns when the peer sends,
\* when the peer closes, or when the handle is closed locally.
ReadMsg(m) ==
    /\ m \in peerMsgs
    /\ loopPc = "read"
    /\ rconn \in open \ peerClosed
    /\ budget > 0
    /\ budget' = budget - 1
    /\ inMsg' = m
    /\ messagesReceived' = messagesReceived + 1
    /\ loopPc' = "handle"
    /\ UNCHANGED <<started, ctxDone, conn, connected, callbacks, messagesSent,
                   reconnects, open, peerClosed, dials, dconn, rconn,
                   backoff, ping, spc, sconn, sres, closePc, closeReturned,
                   peerMsgs, calls, pongs, lost, lostAt, ccfg>>
    /\ UNCHANGED nonCloudVars

\* readLoop: conn.ReadMessage() returns an error: the peer closed the
\* connection, or the handle was closed under the reader.
ReadErr ==
    /\ loopPc = "read"
    /\ rconn \notin open \/ rconn \in peerClosed
    /\ loopPc' = "readErr"
    /\ UNCHANGED <<started, ctxDone, conn, connected, callbacks, messagesSent,
                   messagesReceived, reconnects, open, peerClosed, dials,
                   dconn, rconn, backoff, inMsg, ping, spc, sconn, sres,
                   closePc, closeReturned, budget, peerMsgs, calls, pongs,
                   lost, lostAt, ccfg>>
    /\ UNCHANGED nonCloudVars

\* readLoop after a read error, a variant that ends connectionLoop.
ReadErrCloseStop ==
    /\ loopPc = "readErr"
    /\ CloseConnection
    /\ loopPc' = "done"
    /\ UNCHANGED <<started, ctxDone, callbacks, messagesSent, messagesReceived,
                   reconnects, peerClosed, dials, dconn, rconn, backoff,
                   inMsg, ping, spc, sconn, sres, closePc, closeReturned,
                   budget, peerMsgs, calls, pongs, ccfg>>
    /\ UNCHANGED nonCloudVars

\* readLoop, after a read error: c.closeConnection(); return.
ReadErrClose ==
    /\ loopPc = "readErr"
    /\ CloseConnection
    /\ loopPc' = "top"
    /\ UNCHANGED <<started, ctxDone, callbacks, messagesSent, messagesReceived,
                   reconnects, peerClosed, dials, dconn, rconn, backoff,
                   inMsg, ping, spc, sconn, sres, closePc, closeReturned,
                   budget, peerMsgs, calls, pongs, ccfg>>
    /\ UNCHANGED nonCloudVars

\* The callbacks handleMessage invokes for message m, given the callback
\* slots it snapshots under c.mu: a variant that ignores the type.
DispatchAny(m, cbs) ==
    IF m.ok /\ m.dataOk /\ cbs # {}
      THEN <<<<CHOOSE k \in cbs : TRUE, m.payload>>>>
      ELSE << >>

\* The callbacks handleMessage invokes for message m, given the callback
\* slots it snapshots under c.mu: the switch on msg.Type, and in each case
\* the nil check of the slot and the error check of the payload's unmarshal.
Dispatch(m, cbs) ==
    IF m.ok /\ m.type \in Kinds /\ m.type \in cbs /\ m.dataOk
      THEN <<<<m.type, m.payload>>>>
      ELSE << >>

\* handleMessage, a variant that gives up the connection when a message
\* calls no callback and is no ping.
HandleMessageStrict ==
    /\ loopPc = "handle"
    /\ calls' = calls \o Dispatch(inMsg, callbacks)
    /\ IF inMsg.ok /\ inMsg.type = "ping"
         THEN /\ loopPc' = "pong"
              /\ spc' = [spc EXCEPT ![LoopTask] = "call"]
              /\ UNCHANGED <<conn, connected, open, lost, lostAt>>
         ELSE IF Dispatch(inMsg, callbacks) = << >>
                THEN /\ CloseConnection
                     /\ loopPc' = "top"
                     /\ spc' = spc
                ELSE /\ loopPc' = "readTop"
                     /\ spc' = spc
                     /\ UNCHANGED <<conn, connected, open, lost, lostAt>>
    /\ inMsg' = NoMsg
    /\ UNCHANGED <<started, ctxDone, callbacks, messagesSent, messagesReceived,
                   reconnects, peerClosed, dials, dconn, rconn, backoff,
                   ping, sconn, sres, closePc, closeReturned, budget,
                   peerMsgs, pongs, ccfg>>
    /\ UNCHANGED nonCloudVars

\* handleMessage: parse, snapshot the callbacks under c.mu, dispatch on the
\* type.  A ping calls SendMessage(pong); everything else returns to readLoop.
HandleMessage ==
    /\ loopPc = "handle"
    /\ calls' = calls \o Dispatch(inMsg, callbacks)
    /\ IF inMsg.ok /\ inMsg.type = "ping"
         THEN /\ loopPc' = "pong"
              /\ spc' = [spc EXCEPT ![LoopTask] = "call"]
         ELSE /\ loopPc' = "readTop"
              /\ spc' = spc
    /\ inMsg' = NoMsg
    /\ UNCHANGED <<started, ctxDone, conn, connected, callbacks, messagesSent,
                   messagesReceived, reconnects, open, peerClosed, dials,
                   dconn, rconn, backoff, ping, sconn, sres, closePc,
                   closeReturned, budget, peerMsgs, pongs, lost, lostAt,
                   ccfg>>
    /\ UNCHANGED nonCloudVars

\* SendMessage returns res to task t: a sender is idle again, the loop
\* goroutine is back in readLoop's for.
Return(t, res) ==
    /\ spc' = [spc EXCEPT ![t] = "idle"]
    /\ sres' = [sres EXCEPT ![t] = res]
    /\ loopPc' = IF t = LoopTask THEN "readTop" ELSE loopPc

\* SendMessage's test after its snapshot: !connected || conn == nil.
NotConnected(c, isConnected) == ~isConnected \/ c = Nil

\* SendMessage, first critical section: conn, connected := c.conn,
\* c.connected; not connected returns the error, otherwise the task goes on,
\* with nothing locked, to json.Marshal, conn.SetWriteDeadline and
\* conn.WriteMessage on the handle it holds (pc "write").
Snapshot(t) ==
    /\ IF NotConnected(conn, connected)
         THEN /\ Return(t, "NotConnected")
              /\ sconn' = [sconn EXCEPT ![t] = Nil]
         ELSE /\ sconn' = [sconn EXCEPT ![t] = conn]
              /\ spc' = [spc EXCEPT ![t] = "write"]
              /\ UNCHANGED <<sres, loopPc>>

\* SendFrame / SendDOA: build the message and call SendMessage, up to the
\* end of its first critical section.
SendCall(t) ==
    /\ t \in Senders
    /\ spc[t] = "idle"
    /\ budget > 0
    /\ budget' = budget - 1
    /\ Snapshot(t)
    /\ UNCHANGED <<started, ctxDone, conn, connected, callbacks, messagesSent,
                   messagesReceived, reconnects, open, peerClosed, dials,
                   dconn, rconn, backoff, inMsg, ping, closePc,
                   closeReturned, peerMsgs, calls, pongs, lost, lostAt,
                   ccfg>>
    /\ UNCHANGED nonCloudVars

\* handleMessage's SendMessage(pong), up to the end of its first critical
\* section.
PongCall ==
    /\ spc[LoopTask] = "call"
    /\ Snapshot(LoopTask)
    /\ UNCHANGED <<started, ctxDone, conn, connected, callbacks, messagesSent,
                   messagesReceived, reconnects, open, peerClosed, dials,
                   dconn, rconn, backoff, inMsg, ping, closePc,
                   closeReturned, budget, peerMsgs, calls, pongs, lost,
                   lostAt, ccfg>>
    /\ UNCHANGED nonCloudVars

\* SendMessage: conn.WriteMessage returns nil; messagesSent.Add(1); return.
\* A write to a connection the peer has closed may still be accepted by the
\* local stack.
WriteOK(t) ==
    /\ spc[t] = "write"
    /\ sconn[t] \in open
    /\ messagesSent' = messagesSent + 1
    /\ pongs' = IF t = LoopTask THEN pongs \cup {sconn[t]} ELSE pongs
    /\ Return(t, "Ok")
    /\ UNCHANGED <<started, ctxDone, conn, connected, callbacks, messagesReceived,
                   reconnects, open, peerClosed, dials, dconn, rconn,
                   backoff, inMsg, ping, sconn, closePc, closeReturned,
                   budget, peerMsgs, calls, lost, lostAt, ccfg>>
    /\ UNCHANGED nonCloudVars

\* SendMessage: conn.WriteMessage returns an error: the handle was closed,
\* or the peer is gone.
WriteFail(t) ==
    /\ spc[t] = "write"
    /\ sconn[t] \notin open \/ sconn[t] \in peerClosed
    /\ spc' = [spc EXCEPT ![t] = "closing"]
    /\ UNCHANGED <<started, ctxDone, conn, connected, callbacks, messagesSent,
                   messagesReceived, reconnects, open, peerClosed, dials,
                   loopPc, dconn, rconn, backoff, inMsg, ping, sconn, sres,
                   closePc, closeReturned, budget, peerMsgs, calls, pongs,
                   lost, lostAt, ccfg>>
    /\ UNCHANGED nonCloudVars

\* SendMessage, after a write error: c.closeConnection(); return the error.
WriteFailClose(t) ==
    /\ spc[t] = "closing"
    /\ CloseConnection
    /\ Return(t, "WriteError")
    /\ UNCHANGED <<started, ctxDone, callbacks, messagesSent, messagesReceived,
                   reconnects, peerClosed, dials, dconn, rconn, backoff,
                   inMsg, ping, sconn, closePc, closeReturned, budget,
                   peerMsgs, calls, pongs, ccfg>>
    /\ UNCHANGED nonCloudVars

\* pingLoop p, select: ticker.C.  Under c.mu a nil c.conn returns, otherwise
\* conn := c.conn and conn.WriteControl(PingMessage) is entered.
PingTick(p) ==
    /\ p \in DOMAIN ping
    /\ ping[p].pc = "wait"
    /\ budget > 0
    /\ budget' = budget - 1
    /\ ping' = [ping EXCEPT ![p] = IF conn = Nil
                                     THEN [pc |-> "done", conn |-> Nil]
                                     ELSE [pc |-> "write", conn |-> conn]]
    /\ UNCHANGED <<started, ctxDone, conn, connected, callbacks, messagesSent,
                   messagesReceived, reconnects, open, peerClosed, dials,
                   loopPc, dconn, rconn, backoff, inMsg, spc, sconn, sres,
                   closePc, closeReturned, peerMsgs, calls, pongs, lost,
                   lostAt, ccfg>>
    /\ UNCHANGED nonCloudVars

\* pingLoop p, select: ctx.Done(); return.
PingCancelled(p) ==
    /\ p \in DOMAIN ping
    /\ ping[p].pc = "wait"
    /\ ctxDone
    /\ ping' = [ping EXCEPT ![p] = [pc |-> "done", conn |-> Nil]]
    /\ UNCHANGED <<started, ctxDone, conn, connected, callbacks, messagesSent,
                   messagesReceived, reconnects, open, peerClosed, dials,
                   loopPc, dconn, rconn, backoff, inMsg, spc, sconn, sres,
                   closePc, closeReturned, budget, peerMsgs, calls, pongs,
                   lost, lostAt, ccfg>>
    /\ UNCHANGED nonCloudVars

\* pingLoop p: conn.WriteControl returns nil; back to the select.
PingWriteOK(p) ==
    /\ p \in DOMAIN ping
    /\ ping[p].pc = "write"
    /\ ping[p].conn \in open
    /\ ping' = [ping EXCEPT ![p] = [pc |-> "wait", conn |-> Nil]]
    /\ UNCHANGED <<started, ctxDone, conn, connected, callbacks, messagesSent,
                   messagesReceived, reconnects, open, peerClosed, dials,
                   loopPc, dconn, rconn, backoff, inMsg, spc, sconn, sres,
                   closePc, closeReturned, budget, peerMsgs, calls, pongs,
                   lost, lostAt, ccfg>>
    /\ UNCHANGED nonCloudVars

\* pingLoop p: conn.WriteControl returns an error; return.
PingWriteFail(p) ==
    /\ p \in DOMAIN ping
    /\ ping[p].pc = "write"
    /\ ping[p].conn \notin open \/ ping[p].conn \in peerClosed
    /\ ping' = [ping EXCEPT ![p] = [pc |-> "done", conn |-> Nil]]
    /\ UNCHANGED <<started, ctxDone, conn, connected, callbacks, messagesSent,
                   messagesReceived, reconnects, open, peerClosed, dials,
                   loopPc, dconn, rconn, backoff, inMsg, spc, sconn, sres,
                   closePc, closeReturned, budget, peerMsgs, calls, pongs,
                   lost, lostAt, ccfg>>
    /\ UNCHANGED nonCloudVars

\* ----------------------------------------------------------------- tracker

\* Configurations, in units of 1/100 (alpha, the confidence terms) and in
\* ticks of the clock (the poll interval, the latch duration).
Configs ==
    { [pollInterval |-> 1, latchDur |-> 2, alpha |-> 50, historySize |-> 6,
       base |-> 30, speakingBonus |-> 40, stabilityBonus |-> 20],
      [pollInterval |-> 1, latchDur |-> 0, alpha |-> 0, historySize |-> 2,
       base |-> 80, speakingBonus |-> 40, stabilityBonus |-> 20],
      [pollInterval |-> 2, latchDur |-> 3, alpha |-> 100, historySize |-> 0,
       base |-> -50, speakingBonus |-> 20, stabilityBonus |-> 10],
      [pollInterval |-> 1, latchDur |-> 1, alpha |-> 30, historySize |-> 5,
       base |-> 30, speakingBonus |-> 90, stabilityBonus |-> 90],
      [pollInterval |-> 1, latchDur |-> 3, alpha |-> 50, historySize |-> 5,
       base |-> 40, speakingBonus |-> -60, stabilityBonus |-> 50] }

\* DefaultTrackerConfig() with the poll interval as the tick: 50 ms, a
\* latch of 500 ms, alpha 0.3, and the tests' history of 10.
DefaultCfg ==
    [pollInterval |-> 1, latchDur |-> 10, alpha |-> 30, historySize |-> 10,
     base |-> 30, speakingBonus |-> 40, stabilityBonus |-> 20]

\* The raw angles the source is set to: left, front, right.
RawAngles == {0, HalfPi, 2 * HalfPi}

\* The zero Result.  seq is not a field of the program: it numbers the
\* Results in the order poll() made them, as their Timestamp does.
ZeroResult ==
    [angle |-> 0, speaking |-> FALSE, at |-> ZeroTime, smoothed |-> 0,
     confidence |-> 0, latched |-> FALSE, seq |-> 0]

\* No call of GetTarget() has returned.
NoTarget == [angle |-> 0, confidence |-> 0, ok |-> FALSE, called |-> FALSE]

\* NewTracker over NewMockSource().
TrackerInit ==
    /\ latest = ZeroResult
    /\ history = << >>
    /\ speakingLatchedAt = ZeroTime
    /\ pollCount = 0
    /\ pollErrorCount = 0
    /\ subs = << >>
    /\ chanCount = 0
    /\ closes = [ch \in 1..MaxSubs |-> 0]
    /\ noops = 0
    /\ runPc = "idle"
    /\ cancelSet = FALSE
    /\ runCtxDone = FALSE
    /\ stopPc = "idle"
    /\ stopReturned = FALSE
    /\ stopSaw = "idle"
    /\ target = NoTarget
    /\ src = [angle |-> 0, speaking |-> FALSE, err |-> FALSE]
    /\ now = 0
    /\ spokeAt = {}
    /\ tmu = "free"
    /\ pollPc = "idle"
    /\ reading = [angle |-> 0, speaking |-> FALSE, at |-> ZeroTime, latched |-> FALSE]
    /\ got = [r |-> ZeroResult, n |-> 0]
    /\ stats = [pollCount |-> 0, errorCount |-> 0, historySize |-> 0,
                latched |-> FALSE, angle |-> 0, confidence |-> 0, n |-> 0]
    /\ recv = ZeroResult
    /\ made = {}

\* ToEvaAngle.
ToEvaAngle(xvfAngle) == HalfPi - xvfAngle

\* Clamp without its upper bound.
ClampBelowOnly(value, min, max) == IF value < min THEN min ELSE value

\* Clamp.
Clamp(value, min, max) ==
    IF value < min THEN min ELSE IF value > max THEN max ELSE value

\* time.Since(t) at clock reading n.
Since(t, n) == IF t = ZeroTime THEN MaxDuration ELSE n - t

\* updateSpeakingLatch with <= for <.
SpeakingLatchInclusive(rawSpeaking, latchedAt, n) ==
    rawSpeaking \/ Since(latchedAt, n) <= cfg.latchDur

\* updateSpeakingLatch, the value it returns at clock reading n.
SpeakingLatch(rawSpeaking, latchedAt, n) ==
    rawSpeaking \/ Since(latchedAt, n) < cfg.latchDur

\* poll()'s EMA with the weights of the reading and of the previous
\* smoothed angle exchanged.
SmoothSwapped(angle) ==
    IF Len(history) > 0
      THEN ((100 - cfg.alpha) * angle + cfg.alpha * latest.smoothed) \div 100
      ELSE angle

\* poll()'s EMA without the test of the history: the first Result is
\* smoothed against the zero Result.
SmoothAlways(angle) ==
    (cfg.alpha * angle + (100 - cfg.alpha) * latest.smoothed) \div 100

\* poll(): the EMA of the angle; the first Result takes the reading's angle.
\* The division rounds down where the floating point product rounds to
\* nearest.
Smooth(angle) ==
    IF Len(history) > 0
      THEN (cfg.alpha * angle + (100 - cfg.alpha) * latest.smoothed) \div 100
      ELSE angle

RECURSIVE SumSq(_, _, _)
\* calculateConfidence: the sum, over history[i..], of the squared
\* differences to angle.
SumSq(h, i, angle) ==
    IF i > Len(h) THEN 0
    ELSE (h[i].smoothed - angle) * (h[i].smoothed - angle) + SumSq(h, i + 1, angle)

\* calculateConfidence with > for >= in the test of the history's length.
CalculateConfidenceLongHistory(speaking, angle) ==
    LET c1 == cfg.base + (IF speaking THEN cfg.speakingBonus ELSE 0)
        stable == /\ Len(history) > StabilityWindow
                  /\ SumSq(history, Len(history) - StabilityWindow + 1, angle)
                        < VarianceSumLimit
    IN  Clamp(c1 + (IF stable THEN cfg.stabilityBonus ELSE 0), 0, 100)

\* calculateConfidence.
CalculateConfidence(speaking, angle) ==
    LET c1 == cfg.base + (IF speaking THEN cfg.speakingBonus ELSE 0)
        stable == /\ Len(history) >= StabilityWindow
                  /\ SumSq(history, Len(history) - StabilityWindow + 1, angle)
                        < VarianceSumLimit
    IN  Clamp(c1 + (IF stable THEN cfg.stabilityBonus ELSE 0), 0, 100)

\* appendHistory that cuts the slice without shifting it: the newest entry
\* is the one that is lost.
AppendHistoryNoShift(h, result) ==
    LET a == Append(h, result)
    IN  IF Len(a) > cfg.historySize THEN SubSeq(a, 1, cfg.historySize) ELSE a

\* appendHistory: append, and when the length exceeds HistorySize shift the
\* entries down by one (copy) and cut the slice to HistorySize.
AppendHistory(h, result) ==
    LET a == Append(h, result)
        shifted == [i \in 1..Len(a) |-> IF i < Len(a) THEN a[i + 1] ELSE a[i]]
    IN  IF Len(a) > cfg.historySize
          THEN SubSeq(shifted, 1, cfg.historySize)
          ELSE a

\* notifySubscribers with a break for the default case: the loop ends at the
\* first channel that is full.
NotifyUntilFull(s, result) ==
    [ch \in DOMAIN s |->
        IF \A c \in DOMAIN s : c <= ch => Len(s[c]) < SinkCap
          THEN Append(s[ch], result) ELSE s[ch]]

\* notifySubscribers: for every channel a select with a default, so the
\* Result is buffered where there is room and dropped where there is none.
NotifySubscribers(s, result) ==
    [ch \in DOMAIN s |->
        IF Len(s[ch]) < SinkCap THEN Append(s[ch], result) ELSE s[ch]]

\* go t.Run(ctx): the goroutine is made; Run has not run its first line.
RunStart ==
    /\ runPc = "idle"
    /\ runPc' = "started"
    /\ UNCHANGED <<cfg, latest, history, speakingLatchedAt, pollCount,
                   pollErrorCount, subs, chanCount, closes, noops,
                   cancelSet, runCtxDone, stopPc, stopReturned, stopSaw,
                   target, src, now, pollsLeft, changesLeft, spokeAt, tmu,
                   pollPc, reading, got, stats, recv, made>>
    /\ UNCHANGED nonTrackerVars

\* Run: ctx, t.cancel = context.WithCancel(ctx), and the ticker is made.
RunSetCancel ==
    /\ runPc = "started"
    /\ runPc' = "loop"
    /\ cancelSet' = TRUE
    /\ UNCHANGED <<cfg, latest, history, speakingLatchedAt, pollCount,
                   pollErrorCount, subs, chanCount, closes, noops,
                   runCtxDone, stopPc, stopReturned, stopSaw, target, src,
                   now, pollsLeft, changesLeft, spokeAt, tmu, pollPc,
                   reading, got, stats, recv, made>>
    /\ UNCHANGED nonTrackerVars

\* Run's select takes ctx.Done: Run returns ctx.Err(), and the deferred
\* close(t.done) runs.
RunExit ==
    /\ runPc = "loop"
    /\ runCtxDone
    /\ runPc' = "done"
    /\ UNCHANGED <<cfg, latest, history, speakingLatchedAt, pollCount,
                   pollErrorCount, subs, chanCount, closes, noops,
                   cancelSet, runCtxDone, stopPc, stopReturned, stopSaw,
                   target, src, now, pollsLeft, changesLeft, spokeAt, tmu,
                   pollPc, reading, got, stats, recv, made>>
    /\ UNCHANGED nonTrackerVars

\* The context given to Run is cancelled by its owner.
TrackerCancel ==
    /\ changesLeft > 0
    /\ runPc # "idle"
    /\ ~runCtxDone
    /\ changesLeft' = changesLeft - 1
    /\ runCtxDone' = TRUE
    /\ UNCHANGED <<cfg, latest, history, speakingLatchedAt, pollCount,
                   pollErrorCount, subs, chanCount, closes, noops, runPc,
                   cancelSet, stopPc, stopReturned, stopSaw, target, src,
                   now, pollsLeft, spokeAt, tmu, pollPc, reading, got,
                   stats, recv, made>>
    /\ UNCHANGED nonTrackerVars

\* poll() and Run with the error of poll() returned by Run, which ends
\* the loop.
PollFailedReturns ==
    /\ pollErrorCount' = pollErrorCount + 1
    /\ runPc' = "done"
    /\ UNCHANGED <<latest, history, speakingLatchedAt, pollCount, subs,
                   spokeAt>>

\* poll(), GetDOA returns an error: pollErrorCount is incremented under
\* t.mu and the error returned to Run, which logs it and goes on.
PollFailed ==
    /\ pollErrorCount' = pollErrorCount + 1
    /\ UNCHANGED <<latest, history, speakingLatchedAt, pollCount, subs,
                   spokeAt, runPc>>

\* Run(), one tick of the poll ticker taken by the select (which may take
\* it also when ctx.Done is ready), and poll(): GetDOA fails, and
\* pollErrorCount is incremented, the error logged; or it returns a
\* reading, and under t.mu the latch, the smoothed angle and the
\* confidence are computed, latest and history are replaced, and the
\* Result is fanned out.
Poll ==
    /\ runPc = "loop"
    /\ pollsLeft > 0
    /\ pollsLeft' = pollsLeft - 1
    /\ now' = now + cfg.pollInterval
    /\ IF src.err
         THEN PollFailed
         ELSE LET angle == ToEvaAngle(src.angle)
                  latched == SpeakingLatch(src.speaking, speakingLatchedAt, now')
                  smoothed == Smooth(angle)
                  result == [angle |-> angle, speaking |-> src.speaking,
                             at |-> now', smoothed |-> smoothed,
                             confidence |-> CalculateConfidence(latched, smoothed),
                             latched |-> latched, seq |-> pollCount + 1]
              IN  /\ pollCount' = pollCount + 1
                  /\ speakingLatchedAt' =
                        IF src.speaking THEN now' ELSE speakingLatchedAt
                  /\ latest' = result
                  /\ history' = AppendHistory(history, result)
                  /\ subs' = NotifySubscribers(subs, result)
                  /\ spokeAt' = IF src.speaking THEN spokeAt \cup {now'} ELSE spokeAt
                  /\ UNCHANGED <<pollErrorCount, runPc>>
    /\ UNCHANGED <<cfg, chanCount, closes, noops, cancelSet, runCtxDone, stopPc,
                   stopReturned, stopSaw, target, src, changesLeft, tmu,
                   pollPc, reading, got, stats, recv, made>>
    /\ UNCHANGED nonTrackerVars

\* MockSource.SetAngle.
SetAngle(a) ==
    /\ changesLeft > 0
    /\ a # src.angle
    /\ changesLeft' = changesLeft - 1
    /\ src' = [src EXCEPT !.angle = a]
    /\ UNCHANGED <<cfg, latest, history, speakingLatchedAt, pollCount,
                   pollErrorCount, subs, chanCount, closes, noops, runPc,
                   cancelSet, runCtxDone, stopPc, stopReturned, stopSaw,
                   target, now, pollsLeft, spokeAt, tmu, pollPc, reading,
                   got, stats, recv, made>>
    /\ UNCHANGED nonTrackerVars

\* MockSource.SetSpeaking.
SetSpeaking ==
    /\ changesLeft > 0
    /\ changesLeft' = changesLeft - 1
    /\ src' = [src EXCEPT !.speaking = ~@]
    /\ UNCHANGED <<cfg, latest, history, speakingLatchedAt, pollCount,
                   pollErrorCount, subs, chanCount, closes, noops, runPc,
                   cancelSet, runCtxDone, stopPc, stopReturned, stopSaw,
                   target, now, pollsLeft, spokeAt, tmu, pollPc, reading,
                   got, stats, recv, made>>
    /\ UNCHANGED nonTrackerVars

\* The source starts, or stops, to fail.
SetErr ==
    /\ changesLeft > 0
    /\ changesLeft' = changesLeft - 1
    /\ src' = [src EXCEPT !.err = ~@]
    /\ UNCHANGED <<cfg, latest, history, speakingLatchedAt, pollCount,
                   pollErrorCount, subs, chanCount, closes, noops, runPc,
                   cancelSet, runCtxDone, stopPc, stopReturned, stopSaw,
                   target, now, pollsLeft, spokeAt, tmu, pollPc, reading,
                   got, stats, recv, made>>
    /\ UNCHANGED nonTrackerVars

\* Subscribe(): a new channel of capacity 10, added to t.subs under subsMu.
Subscribe ==
    /\ chanCount < MaxSubs
    /\ chanCount' = chanCount + 1
    /\ subs' = [ch \in DOMAIN subs \cup {chanCount + 1} |->
                    IF ch \in DOMAIN subs THEN subs[ch] ELSE << >>]
    /\ UNCHANGED <<cfg, latest, history, speakingLatchedAt, pollCount,
                   pollErrorCount, closes, noops, runPc, cancelSet,
                   runCtxDone, stopPc, stopReturned, stopSaw, target, src,
                   now, pollsLeft, changesLeft, spokeAt, tmu, pollPc,
                   reading, got, stats, recv, made>>
    /\ UNCHANGED nonTrackerVars

\* Unsubscribe without its test of membership: the channel is closed
\* whether it is in t.subs or not.
UnsubscribeUnchecked(ch) ==
    /\ changesLeft > 0
    /\ ch \in 1..chanCount
    /\ changesLeft' = changesLeft - 1
    /\ subs' = [c \in DOMAIN subs \ {ch} |-> subs[c]]
    /\ closes' = [closes EXCEPT ![ch] = @ + 1]
    /\ UNCHANGED <<cfg, latest, history, speakingLatchedAt, pollCount,
                   pollErrorCount, chanCount, noops, runPc, cancelSet,
                   runCtxDone, stopPc, stopReturned, stopSaw, target, src,
                   now, pollsLeft, spokeAt, tmu, pollPc, reading, got,
                   stats, recv, made>>
    /\ UNCHANGED nonTrackerVars

\* Unsubscribe(ch), under subsMu: a channel that is in t.subs is deleted
\* from it and closed; for any other channel nothing is done.
Unsubscribe(ch) ==
    /\ changesLeft > 0
    /\ ch \in 1..chanCount
    /\ changesLeft' = changesLeft - 1
    /\ IF ch \in DOMAIN subs
         THEN /\ subs' = [c \in DOMAIN subs \ {ch} |-> subs[c]]
              /\ closes' = [closes EXCEPT ![ch] = @ + 1]
              /\ UNCHANGED noops
         ELSE /\ noops' = noops + 1
              /\ UNCHANGED <<subs, closes>>
    /\ UNCHANGED <<cfg, latest, history, speakingLatchedAt, pollCount,
                   pollErrorCount, chanCount, runPc, cancelSet, runCtxDone,
                   stopPc, stopReturned, stopSaw, target, src, now,
                   pollsLeft, spokeAt, tmu, pollPc, reading, got, stats,
                   recv, made>>
    /\ UNCHANGED nonTrackerVars

\* Stop(): t.cancel is nil, and Stop goes on to close the channels; or it
\* is not, cancel() is called and Stop waits for t.done.
StopCall ==
    /\ changesLeft > 0
    /\ stopPc = "idle"
    /\ changesLeft' = changesLeft - 1
    /\ stopReturned' = FALSE
    /\ stopSaw' = runPc
    /\ IF cancelSet
         THEN /\ runCtxDone' = TRUE
              /\ stopPc' = "wait"
         ELSE /\ stopPc' = "close"
              /\ UNCHANGED runCtxDone
    /\ UNCHANGED <<cfg, latest, history, speakingLatchedAt, pollCount,
                   pollErrorCount, subs, chanCount, closes, noops, runPc,
                   cancelSet, target, src, now, pollsLeft, spokeAt, tmu,
                   pollPc, reading, got, stats, recv, made>>
    /\ UNCHANGED nonTrackerVars

\* Stop(): <-t.done returns.
StopWait ==
    /\ stopPc = "wait"
    /\ runPc = "done"
    /\ stopPc' = "close"
    /\ UNCHANGED <<cfg, latest, history, speakingLatchedAt, pollCount,
                   pollErrorCount, subs, chanCount, closes, noops, runPc,
                   cancelSet, runCtxDone, stopReturned, stopSaw, target,
                   src, now, pollsLeft, changesLeft, spokeAt, tmu, pollPc,
                   reading, got, stats, recv, made>>
    /\ UNCHANGED nonTrackerVars

\* Stop(), under subsMu: every channel of t.subs is closed and deleted;
\* Stop returns.
StopClose ==
    /\ stopPc = "close"
    /\ closes' = [ch \in DOMAIN closes |->
                      IF ch \in DOMAIN subs THEN closes[ch] + 1 ELSE closes[ch]]
    /\ subs' = << >>
    /\ stopPc' = "idle"
    /\ stopReturned' = TRUE
    /\ UNCHANGED <<cfg, latest, history, speakingLatchedAt, pollCount,
                   pollErrorCount, chanCount, noops, runPc, cancelSet,
                   runCtxDone, stopSaw, target, src, now, pollsLeft,
                   changesLeft, spokeAt, tmu, pollPc, reading, got, stats,
                   recv, made>>
    /\ UNCHANGED nonTrackerVars

\* GetTarget() with <= for <: a confidence equal to the base is refused.
GetTargetAboveBase ==
    IF latest.confidence <= cfg.base
      THEN [angle |-> 0, confidence |-> 0, ok |-> FALSE, called |-> TRUE]
      ELSE [angle |-> latest.smoothed, confidence |-> latest.confidence,
            ok |-> TRUE, called |-> TRUE]

\* GetTarget(), under t.mu.
GetTarget ==
    IF latest.confidence < cfg.base
      THEN [angle |-> 0, confidence |-> 0, ok |-> FALSE, called |-> TRUE]
      ELSE [angle |-> latest.smoothed, confidence |-> latest.confidence,
            ok |-> TRUE, called |-> TRUE]

\* t.mu.RLock() that does not wait for the writer.
RLockNoWait == TRUE

\* t.mu.RLock(): it is taken while poll() does not hold t.mu.
RLock == tmu # "poll"

\* A call of GetTarget().
GetTargetCall ==
    /\ changesLeft > 0
    /\ RLock
    /\ changesLeft' = changesLeft - 1
    /\ target' = GetTarget
    /\ UNCHANGED <<cfg, latest, history, speakingLatchedAt, pollCount,
                   pollErrorCount, subs, chanCount, closes, noops, runPc,
                   cancelSet, runCtxDone, stopPc, stopReturned, stopSaw,
                   src, now, pollsLeft, spokeAt, tmu, pollPc, reading, got,
                   stats, recv, made>>
    /\ UNCHANGED nonTrackerVars

\* A call of GetLatest(): t.latest, read under t.mu.
GetLatestCall ==
    /\ changesLeft > 0
    /\ RLock
    /\ changesLeft' = changesLeft - 1
    /\ got' = [r |-> latest, n |-> got.n + 1]
    /\ UNCHANGED <<cfg, latest, history, speakingLatchedAt, pollCount,
                   pollErrorCount, subs, chanCount, closes, noops, runPc,
                   cancelSet, runCtxDone, stopPc, stopReturned, stopSaw,
                   target, src, now, pollsLeft, spokeAt, tmu, pollPc,
                   reading, stats, recv, made>>
    /\ UNCHANGED nonTrackerVars

\* A call of Stats(): the counters, len(t.history) and the fields of
\* t.latest, read under t.mu.
StatsCall ==
    /\ changesLeft > 0
    /\ RLock
    /\ changesLeft' = changesLeft - 1
    /\ stats' = [pollCount |-> pollCount, errorCount |-> pollErrorCount,
                 historySize |-> Len(history), latched |-> latest.latched,
                 angle |-> latest.smoothed, confidence |-> latest.confidence,
                 n |-> stats.n + 1]
    /\ UNCHANGED <<cfg, latest, history, speakingLatchedAt, pollCount,
                   pollErrorCount, subs, chanCount, closes, noops, runPc,
                   cancelSet, runCtxDone, stopPc, stopReturned, stopSaw,
                   target, src, now, pollsLeft, spokeAt, tmu, pollPc,
                   reading, got, recv, made>>
    /\ UNCHANGED nonTrackerVars

\* Run(), one tick, and poll() up to t.mu.Lock(): GetDOA fails, and
\* pollErrorCount is incremented under t.mu; or it returns a reading and
\* poll() takes the write lock, which waits for no reader here as every
\* reader holds t.mu for one step.
PollLock ==
    /\ runPc = "loop"
    /\ pollPc = "idle"
    /\ pollsLeft > 0
    /\ pollsLeft' = pollsLeft - 1
    /\ now' = now + cfg.pollInterval
    /\ IF src.err
         THEN /\ PollFailed
              /\ UNCHANGED <<tmu, pollPc, reading>>
         ELSE /\ tmu' = "poll"
              /\ pollPc' = "locked"
              /\ reading' = [angle |-> ToEvaAngle(src.angle),
                             speaking |-> src.speaking, at |-> now',
                             latched |-> FALSE]
              /\ UNCHANGED <<pollErrorCount, latest, history,
                             speakingLatchedAt, pollCount, subs, spokeAt,
                             runPc>>
    /\ UNCHANGED <<cfg, chanCount, closes, noops, cancelSet, runCtxDone, stopPc,
                   stopReturned, stopSaw, target, src, changesLeft, got,
                   stats, recv, made>>
    /\ UNCHANGED nonTrackerVars

\* poll(): t.pollCount++ and updateSpeakingLatch.
PollLatch ==
    /\ pollPc = "locked"
    /\ pollPc' = "latched"
    /\ pollCount' = pollCount + 1
    /\ speakingLatchedAt' = IF reading.speaking THEN now ELSE speakingLatchedAt
    /\ spokeAt' = IF reading.speaking THEN spokeAt \cup {now} ELSE spokeAt
    /\ reading' = [reading EXCEPT
                      !.latched = SpeakingLatch(reading.speaking, speakingLatchedAt, now)]
    /\ UNCHANGED <<cfg, latest, history, pollErrorCount, subs, chanCount, closes,
                   noops, runPc, cancelSet, runCtxDone, stopPc,
                   stopReturned, stopSaw, target, src, now, pollsLeft,
                   changesLeft, tmu, got, stats, recv, made>>
    /\ UNCHANGED nonTrackerVars

\* poll(): the smoothed angle and the confidence, the Result, and
\* t.latest = result.
PollStore ==
    /\ pollPc = "latched"
    /\ pollPc' = "stored"
    /\ LET smoothed == Smooth(reading.angle)
           result == [angle |-> reading.angle, speaking |-> reading.speaking,
                      at |-> reading.at, smoothed |-> smoothed,
                      confidence |-> CalculateConfidence(reading.latched, smoothed),
                      latched |-> reading.latched, seq |-> pollCount]
       IN  /\ latest' = result
           /\ made' = made \cup {result}
    /\ UNCHANGED <<cfg, history, speakingLatchedAt, pollCount, pollErrorCount,
                   subs, chanCount, closes, noops, runPc, cancelSet,
                   runCtxDone, stopPc, stopReturned, stopSaw, target, src,
                   now, pollsLeft, changesLeft, spokeAt, tmu, reading, got,
                   stats, recv>>
    /\ UNCHANGED nonTrackerVars

\* poll(): t.appendHistory(result).
PollAppend ==
    /\ pollPc = "stored"
    /\ pollPc' = "appended"
    /\ history' = AppendHistory(history, latest)
    /\ UNCHANGED <<cfg, latest, speakingLatchedAt, pollCount, pollErrorCount, subs,
                   chanCount, closes, noops, runPc, cancelSet, runCtxDone,
                   stopPc, stopReturned, stopSaw, target, src, now,
                   pollsLeft, changesLeft, spokeAt, tmu, reading, got,
                   stats, recv, made>>
    /\ UNCHANGED nonTrackerVars

\* poll(): t.notifySubscribers(result).
PollNotify ==
    /\ pollPc = "appended"
    /\ pollPc' = "notified"
    /\ subs' = NotifySubscribers(subs, latest)
    /\ UNCHANGED <<cfg, latest, history, speakingLatchedAt, pollCount,
                   pollErrorCount, chanCount, closes, noops, runPc,
                   cancelSet, runCtxDone, stopPc, stopReturned, stopSaw,
                   target, src, now, pollsLeft, changesLeft, spokeAt, tmu,
                   reading, got, stats, recv, made>>
    /\ UNCHANGED nonTrackerVars

\* poll() returns: the deferred t.mu.Unlock().
PollUnlock ==
    /\ pollPc = "notified"
    /\ pollPc' = "idle"
    /\ tmu' = "free"
    /\ UNCHANGED <<cfg, latest, history, speakingLatchedAt, pollCount,
                   pollErrorCount, subs, chanCount, closes, noops, runPc,
                   cancelSet, runCtxDone, stopPc, stopReturned, stopSaw,
                   target, src, now, pollsLeft, changesLeft, spokeAt,
                   reading, got, stats, recv, made>>
    /\ UNCHANGED nonTrackerVars

\* A subscriber receives from its channel.
Receive(ch) ==
    /\ changesLeft > 0
    /\ ch \in DOMAIN subs
    /\ Len(subs[ch]) > 0
    /\ changesLeft' = changesLeft - 1
    /\ recv' = Head(subs[ch])
    /\ subs' = [subs EXCEPT ![ch] = Tail(@)]
    /\ UNCHANGED <<cfg, latest, history, speakingLatchedAt, pollCount,
                   pollErrorCount, chanCount, closes, noops, runPc,
                   cancelSet, runCtxDone, stopPc, stopReturned, stopSaw,
                   target, src, now, pollsLeft, spokeAt, tmu, pollPc,
                   reading, got, stats, made>>
    /\ UNCHANGED nonTrackerVars

\* -------------------------------------------------------------- USB source

\* DefaultUSBSourceConfig(): 5 errors, and the backoff from 100 ms to 5 s,
\* in units of 100 ms.
DefaultUSBSourceConfig == [maxErrors |-> 5, initialBackoff |-> 1, maxBackoff |-> 50]

\* Configurations of the source.
UsbConfigs ==
    { DefaultUSBSourceConfig,
      [maxErrors |-> 2, initialBackoff |-> 1, maxBackoff |-> 3],
      [maxErrors |-> 1, initialBackoff |-> 2, maxBackoff |-> 3],
      [maxErrors |-> 0, initialBackoff |-> 1, maxBackoff |-> 2] }

\* The outcomes of the primary control transfer: the 9 bytes with status 0,
\* an error of the transfer, fewer than 9 bytes, a status that is not 0.
PrimaryOutcomes == {"ok", "error", "short", "status"}

\* No call of GetDOA() has returned.  Of a Reading, energy and azimuths say
\* whether SpeechEnergy and MicAzimuths were filled (they are zero if not),
\* and enhanced how many enhanced transfers the call made.
NoReading ==
    [ok |-> FALSE, err |-> "none", energy |-> FALSE, azimuths |-> FALSE,
     enhanced |-> 0]

\* reconnect has not slept.
NoDelay == -1

\* NewUSBSourceWithConfig, the device found: openDevice has set dev,
\* healthy and consecutiveErrors.
UsbInit ==
    /\ usb = [closed |-> FALSE, dev |-> TRUE, healthy |-> TRUE,
              consecutiveErrors |-> 0,
              reconnectBackoff |-> usbCfg.initialBackoff]
    /\ usbRes = NoReading
    /\ usbSaw = [primary |-> "ok", e1 |-> TRUE, e2 |-> TRUE]
    /\ closeRes = << >>
    /\ transfers = 0
    /\ reopens = 0
    /\ usbPc = "idle"
    /\ slept = NoDelay
    /\ usbCtxDone = FALSE

\* openDevice, the device found.
OpenDevice(u) ==
    [u EXCEPT !.dev = TRUE, !.healthy = TRUE, !.consecutiveErrors = 0]

\* reconnect's doubling of the backoff without its cap.
BackoffUncapped(u) ==
    [u EXCEPT !.reconnectBackoff = 2 * @]

\* reconnect, up to its call of openDevice: the backoff, slept, is doubled
\* and capped.
Backoff(u) ==
    [u EXCEPT !.reconnectBackoff = Min(2 * @, usbCfg.maxBackoff)]

\* reconnect: the backoff, then openDevice, which finds the device
\* (reopenOk) or fails.
Reconnect(u, reopenOk) ==
    IF reopenOk THEN OpenDevice(Backoff(u)) ELSE Backoff(u)

\* recordError with > for >=.
RecordErrorLate(u) ==
    LET n == u.consecutiveErrors + 1
    IN  IF n > usbCfg.maxErrors
          THEN [u EXCEPT !.consecutiveErrors = n, !.healthy = FALSE, !.dev = FALSE]
          ELSE [u EXCEPT !.consecutiveErrors = n]

\* recordError: at maxErrors consecutive errors the source is unhealthy and
\* the device closed, to be reopened by the next call.
RecordError(u) ==
    LET n == u.consecutiveErrors + 1
    IN  IF n >= usbCfg.maxErrors
          THEN [u EXCEPT !.consecutiveErrors = n, !.healthy = FALSE, !.dev = FALSE]
          ELSE [u EXCEPT !.consecutiveErrors = n]

\* recordSuccess: the backoff goes to the default configuration's initial
\* backoff.
RecordSuccess(u) ==
    [u EXCEPT !.consecutiveErrors = 0, !.healthy = TRUE,
              !.reconnectBackoff = DefaultUSBSourceConfig.initialBackoff]

\* readEnhancedData that returns at the first read that fails.
ReadEnhancedDataUntilError(e1, e2) ==
    [energy |-> e1, azimuths |-> e1 /\ e2, enhanced |-> IF e1 THEN 2 ELSE 1]

\* readEnhancedData: two control transfers, each of which fills its array
\* if it succeeds (e1, e2) and leaves it zero if it fails.
ReadEnhancedData(e1, e2) ==
    [energy |-> e1, azimuths |-> e2, enhanced |-> 2]

\* GetDOA's test of u.closed, made of u.dev: a closed source, which has no
\* device, goes on to reconnect.
IsClosedWithDevice(u) == u.closed /\ u.dev

\* GetDOA's test of u.closed.
IsClosed(u) == u.closed

\* GetDOA, under u.mu: a closed source returns the error; a source without
\* device reconnects, and returns the error of a reopen that fails; the
\* primary transfer is made and recorded as an error or as a success, and
\* after a success the enhanced data are read.
GetDOACall(reopenOk, primary, e1, e2) ==
    /\ usbLeft > 0
    /\ usbLeft' = usbLeft - 1
    /\ usbSaw' = [primary |-> primary, e1 |-> e1, e2 |-> e2]
    /\ IF IsClosed(usb)
         THEN /\ usbRes' = [NoReading EXCEPT !.err = "closed"]
              /\ UNCHANGED <<usb, transfers, reopens>>
         ELSE LET u1 == IF usb.dev THEN usb ELSE Reconnect(usb, reopenOk)
                  enh == ReadEnhancedData(e1, e2)
              IN  /\ reopens' = IF usb.dev THEN reopens ELSE reopens + 1
                  /\ IF ~u1.dev
                       THEN /\ usb' = u1
                            /\ usbRes' = [NoReading EXCEPT !.err = "reopen"]
                            /\ UNCHANGED transfers
                       ELSE IF primary # "ok"
                       THEN /\ usb' = RecordError(u1)
                            /\ usbRes' = [NoReading EXCEPT !.err = primary]
                            /\ transfers' = transfers + 1
                       ELSE /\ usb' = RecordSuccess(u1)
                            /\ usbRes' = [ok |-> TRUE, err |-> "none",
                                          energy |-> enh.energy,
                                          azimuths |-> enh.azimuths,
                                          enhanced |-> enh.enhanced]
                            /\ transfers' = transfers + 1 + enh.enhanced

\* A call of GetDOA, whole: the context is not looked at.
GetDOA(reopenOk, primary, e1, e2) ==
    /\ usbPc = "idle"
    /\ GetDOACall(reopenOk, primary, e1, e2)
    /\ slept' = IF ~IsClosed(usb) /\ ~usb.dev THEN usb.reconnectBackoff ELSE slept
    /\ UNCHANGED <<usbCfg, closeRes, usbPc, usbCtxDone>>
    /\ UNCHANGED nonUsbVars

\* A call of GetDOA by a source that is closed or has its device.
GetDOAWithDevice(reopenOk, primary, e1, e2) ==
    /\ IsClosed(usb) \/ usb.dev
    /\ GetDOA(reopenOk, primary, e1, e2)

\* A call of GetDOA by a source without device, up to reconnect's
\* time.Sleep(u.reconnectBackoff): the call sleeps, holding u.mu.
ReconnectSleep ==
    /\ usbLeft > 0
    /\ usbPc = "idle"
    /\ ~IsClosed(usb)
    /\ ~usb.dev
    /\ usbPc' = "sleep"
    /\ slept' = usb.reconnectBackoff
    /\ UNCHANGED <<usbCfg, usb, usbRes, usbSaw, closeRes, transfers, reopens,
                   usbLeft, usbCtxDone>>
    /\ UNCHANGED nonUsbVars

\* time.Sleep returns, after the whole delay: the backoff is doubled,
\* openDevice called, and GetDOA goes on or returns its error.
ReconnectWake(reopenOk, primary, e1, e2) ==
    /\ usbPc = "sleep"
    /\ usbPc' = "idle"
    /\ GetDOACall(reopenOk, primary, e1, e2)
    /\ UNCHANGED <<usbCfg, closeRes, slept, usbCtxDone>>
    /\ UNCHANGED nonUsbVars

\* The context given to GetDOA is cancelled by the caller.
UsbCtxCancel ==
    /\ ~usbCtxDone
    /\ usbCtxDone' = TRUE
    /\ UNCHANGED <<usbCfg, usb, usbRes, usbSaw, closeRes, transfers, reopens,
                   usbLeft, usbPc, slept>>
    /\ UNCHANGED nonUsbVars

\* Close: the error it returns, nil on both of its paths.
CloseResult(u) == "nil"

\* Close, under u.mu: a closed source returns nil; otherwise closed is set,
\* the device and the USB context are closed, and nil is returned.
UsbClose ==
    /\ usbLeft > 0
    /\ usbPc = "idle"
    /\ usbLeft' = usbLeft - 1
    /\ usb' = IF usb.closed THEN usb
               ELSE [usb EXCEPT !.closed = TRUE, !.dev = FALSE]
    /\ closeRes' = Append(closeRes, CloseResult(usb))
    /\ UNCHANGED <<usbCfg, usbRes, usbSaw, transfers, reopens, usbPc, slept,
                   usbCtxDone>>
    /\ UNCHANGED nonUsbVars

\* The USB source, idle.
UsbIdle ==
    /\ usbCfg = DefaultUSBSourceConfig
    /\ UsbInit
    /\ usbLeft = 0

\* ------------------------------------------------------------------- hub

\* NewWSHub with a tracker; Run's lastSpeaking, declared false.
HubInit ==
    /\ hubPc = "idle"
    /\ hubCancelSet = FALSE
    /\ hubCtxDone = FALSE
    /\ lastSpeaking = FALSE
    /\ clients = {}
    /\ connCount = 0
    /\ connClosed = {}
    /\ handlerPc = [c \in 1..MaxConns |-> "none"]
    /\ hubClosePc = "idle"
    /\ hubCloseReturned = FALSE
    /\ hubCloseSaw = "idle"
    /\ bcast = << >>
    /\ ticks = 0
    /\ httpLog = << >>
    /\ bcPc = "idle"
    /\ bcTodo = {}
    /\ bcCur = 0
    /\ slow = {}
    /\ delivered = [c \in 1..MaxConns |-> 0]

\* go hub.Run(ctx): the goroutine is made; Run has not run its first line.
HubRunStart ==
    /\ hubPc = "idle"
    /\ hubPc' = "started"
    /\ UNCHANGED <<hubCancelSet, hubCtxDone, lastSpeaking, clients, connCount,
                   connClosed, handlerPc, hubClosePc, hubCloseReturned,
                   hubCloseSaw, bcast, ticks, hubLeft, httpLog, bcPc,
                   bcTodo, bcCur, slow, delivered>>
    /\ UNCHANGED nonHubVars

\* Run: ctx, h.cancel = context.WithCancel(ctx), and the ticker is made.
HubRunSetCancel ==
    /\ hubPc = "started"
    /\ hubPc' = "loop"
    /\ hubCancelSet' = TRUE
    /\ UNCHANGED <<hubCtxDone, lastSpeaking, clients, connCount, connClosed,
                   handlerPc, hubClosePc, hubCloseReturned, hubCloseSaw,
                   bcast, ticks, hubLeft, httpLog, bcPc, bcTodo, bcCur,
                   slow, delivered>>
    /\ UNCHANGED nonHubVars

\* Run's select takes ctx.Done: Run returns, and the deferred close(h.done)
\* runs.
HubRunExit ==
    /\ hubPc = "loop"
    /\ hubCtxDone
    /\ hubPc' = "done"
    /\ UNCHANGED <<hubCancelSet, hubCtxDone, lastSpeaking, clients, connCount,
                   connClosed, handlerPc, hubClosePc, hubCloseReturned,
                   hubCloseSaw, bcast, ticks, hubLeft, httpLog, bcPc,
                   bcTodo, bcCur, slow, delivered>>
    /\ UNCHANGED nonHubVars

\* The context given to Run is cancelled by its owner.
HubCancel ==
    /\ hubLeft > 0
    /\ hubPc # "idle"
    /\ ~hubCtxDone
    /\ hubLeft' = hubLeft - 1
    /\ hubCtxDone' = TRUE
    /\ UNCHANGED <<hubPc, hubCancelSet, lastSpeaking, clients, connCount,
                   connClosed, handlerPc, hubClosePc, hubCloseReturned,
                   hubCloseSaw, bcast, ticks, httpLog, bcPc, bcTodo, bcCur,
                   slow, delivered>>
    /\ UNCHANGED nonHubVars

\* Run's test for the vad message, made on the reading's speaking flag.
VadChangedRaw(result, last) == result.speaking # last

\* Run's test for the vad message: result.SpeakingLatched != lastSpeaking.
VadChanged(result, last) == result.latched # last

\* The doa message of a tick, and its vad message.
DoaMessage(result, n) ==
    [type |-> "doa", speaking |-> result.latched, seq |-> result.seq, tick |-> n]
VadMessage(result, n) ==
    [type |-> "vad", speaking |-> result.latched, seq |-> result.seq, tick |-> n]

\* Run, one tick of the ticker: the tracker's latest Result is broadcast as
\* a doa message, and if its latch is not lastSpeaking a vad message is
\* broadcast after it and lastSpeaking takes the latch.
HubTick ==
    /\ hubPc = "loop"
    /\ ticks < MaxTicks
    /\ ticks' = ticks + 1
    /\ LET result == latest
       IN  IF VadChanged(result, lastSpeaking)
             THEN /\ bcast' = bcast \o <<DoaMessage(result, ticks'),
                                         VadMessage(result, ticks')>>
                  /\ lastSpeaking' = result.latched
             ELSE /\ bcast' = Append(bcast, DoaMessage(result, ticks'))
                  /\ UNCHANGED lastSpeaking
    /\ UNCHANGED <<hubPc, hubCancelSet, hubCtxDone, clients, connCount, connClosed,
                   handlerPc, hubClosePc, hubCloseReturned, hubCloseSaw,
                   hubLeft, httpLog, bcPc, bcTodo, bcCur, slow, delivered>>
    /\ UNCHANGED nonHubVars

\* The requests the streaming endpoint is given: a GET that asks for the
\* WebSocket upgrade, or a plain one.
Requests == [upgrade : BOOLEAN]

\* UpgradeHandler's test taken as true of every request.
IsWebSocketUpgradeAny(req) == TRUE

\* websocket.IsWebSocketUpgrade(c).
IsWebSocketUpgrade(req) == req.upgrade

\* The response websocket.New gives an upgrade request.
SwitchingProtocols == [status |-> 101, keys |-> {}]

\* c.Status(fiber.StatusUpgradeRequired).JSON(fiber.Map{"error", "message"}).
UpgradeRequired == [status |-> 426, keys |-> {"error", "message"}]

\* UpgradeHandler, an upgrade request: handleConnection runs in the
\* goroutine of the new connection.
HubAccept ==
    /\ connCount < MaxConns
    /\ connCount' = connCount + 1
    /\ handlerPc' = [handlerPc EXCEPT ![connCount + 1] = "attach"]

\* UpgradeHandler's handler, one request: an upgrade request is handed to
\* websocket.New(h.handleConnection); any other is answered 426 with the
\* JSON body, and the hub is not touched.
UpgradeHandler(req) ==
    /\ ~req.upgrade => hubLeft > 0
    /\ hubLeft' = IF req.upgrade THEN hubLeft ELSE hubLeft - 1
    /\ IF IsWebSocketUpgrade(req)
         THEN /\ HubAccept
              /\ httpLog' = Append(httpLog, [req |-> req, res |-> SwitchingProtocols])
         ELSE /\ httpLog' = Append(httpLog, [req |-> req, res |-> UpgradeRequired])
              /\ UNCHANGED <<connCount, handlerPc>>
    /\ UNCHANGED <<hubPc, hubCancelSet, hubCtxDone, lastSpeaking, clients,
                   connClosed, hubClosePc, hubCloseReturned, hubCloseSaw,
                   bcast, ticks, bcPc, bcTodo, bcCur, slow, delivered>>
    /\ UNCHANGED nonHubVars

\* h.mu.Lock() can be taken: broadcast does not hold h.mu shared.
ClientsUnlocked == bcPc = "idle"

\* Run takes a tick and calls broadcast with the doa message: the message
\* is marshalled, h.mu taken shared, and the range over h.clients begins.
BroadcastLock ==
    /\ hubPc = "loop"
    /\ bcPc = "idle"
    /\ ticks < MaxTicks
    /\ ticks' = ticks + 1
    /\ bcast' = Append(bcast, DoaMessage(latest, ticks'))
    /\ bcPc' = "range"
    /\ bcTodo' = clients
    /\ UNCHANGED <<hubPc, hubCancelSet, hubCtxDone, lastSpeaking, clients,
                   connCount, connClosed, handlerPc, hubClosePc,
                   hubCloseReturned, hubCloseSaw, hubLeft, httpLog, bcCur,
                   slow, delivered>>
    /\ UNCHANGED nonHubVars

\* broadcast's range reaches a connection, in the map's order, and calls
\* conn.WriteMessage.
BroadcastWrite(c) ==
    /\ bcPc = "range"
    /\ c \in bcTodo
    /\ bcTodo' = bcTodo \ {c}
    /\ bcCur' = c
    /\ bcPc' = "write"
    /\ UNCHANGED <<hubPc, hubCancelSet, hubCtxDone, lastSpeaking, clients,
                   connCount, connClosed, handlerPc, hubClosePc,
                   hubCloseReturned, hubCloseSaw, bcast, ticks, hubLeft,
                   httpLog, slow, delivered>>
    /\ UNCHANGED nonHubVars

\* conn.WriteMessage returns: the socket has taken the frame (no write
\* deadline is set, so the call waits as long as the socket is full).
BroadcastWritten ==
    /\ bcPc = "write"
    /\ bcCur \notin slow
    /\ delivered' = [delivered EXCEPT ![bcCur] = @ + 1]
    /\ bcCur' = 0
    /\ bcPc' = "range"
    /\ UNCHANGED <<hubPc, hubCancelSet, hubCtxDone, lastSpeaking, clients,
                   connCount, connClosed, handlerPc, hubClosePc,
                   hubCloseReturned, hubCloseSaw, bcast, ticks, hubLeft,
                   httpLog, bcTodo, slow>>
    /\ UNCHANGED nonHubVars

\* broadcast's range is over: the deferred h.mu.RUnlock().
BroadcastUnlock ==
    /\ bcPc = "range"
    /\ bcTodo = {}
    /\ bcPc' = "idle"
    /\ UNCHANGED <<hubPc, hubCancelSet, hubCtxDone, lastSpeaking, clients,
                   connCount, connClosed, handlerPc, hubClosePc,
                   hubCloseReturned, hubCloseSaw, bcast, ticks, hubLeft,
                   httpLog, bcTodo, bcCur, slow, delivered>>
    /\ UNCHANGED nonHubVars

\* handleConnection reads a ping or get_stats command, and handleCommand
\* calls c.WriteJSON with the reply.
HubCommand(c) ==
    /\ hubLeft > 0
    /\ handlerPc[c] = "read"
    /\ hubLeft' = hubLeft - 1
    /\ handlerPc' = [handlerPc EXCEPT ![c] = "reply"]
    /\ UNCHANGED <<hubPc, hubCancelSet, hubCtxDone, lastSpeaking, clients,
                   connCount, connClosed, hubClosePc, hubCloseReturned,
                   hubCloseSaw, bcast, ticks, httpLog, bcPc, bcTodo, bcCur,
                   slow, delivered>>
    /\ UNCHANGED nonHubVars

\* c.WriteJSON returns, and handleConnection reads on.
HubReplied(c) ==
    /\ handlerPc[c] = "reply"
    /\ c \notin slow
    /\ handlerPc' = [handlerPc EXCEPT ![c] = "read"]
    /\ UNCHANGED <<hubPc, hubCancelSet, hubCtxDone, lastSpeaking, clients,
                   connCount, connClosed, hubClosePc, hubCloseReturned,
                   hubCloseSaw, bcast, ticks, hubLeft, httpLog, bcPc,
                   bcTodo, bcCur, slow, delivered>>
    /\ UNCHANGED nonHubVars

\* An observer stops reading: its socket takes no more bytes.
ObserverStalls(c) ==
    /\ hubLeft > 0
    /\ c \in clients
    /\ c \notin slow
    /\ hubLeft' = hubLeft - 1
    /\ slow' = slow \cup {c}
    /\ UNCHANGED <<hubPc, hubCancelSet, hubCtxDone, lastSpeaking, clients,
                   connCount, connClosed, handlerPc, hubClosePc,
                   hubCloseReturned, hubCloseSaw, bcast, ticks, httpLog,
                   bcPc, bcTodo, bcCur, delivered>>
    /\ UNCHANGED nonHubVars

\* An observer reads again.
ObserverDrains(c) ==
    /\ c \in slow
    /\ slow' = slow \ {c}
    /\ UNCHANGED <<hubPc, hubCancelSet, hubCtxDone, lastSpeaking, clients,
                   connCount, connClosed, handlerPc, hubClosePc,
                   hubCloseReturned, hubCloseSaw, bcast, ticks, hubLeft,
                   httpLog, bcPc, bcTodo, bcCur, delivered>>
    /\ UNCHANGED nonHubVars

\* handleConnection, under h.mu: the connection is added to h.clients.
HubAttach(c) ==
    /\ handlerPc[c] = "attach"
    /\ ClientsUnlocked
    /\ clients' = clients \cup {c}
    /\ handlerPc' = [handlerPc EXCEPT ![c] = "read"]
    /\ UNCHANGED <<hubPc, hubCancelSet, hubCtxDone, lastSpeaking, connCount,
                   connClosed, hubClosePc, hubCloseReturned, hubCloseSaw,
                   bcast, ticks, hubLeft, httpLog, bcPc, bcTodo, bcCur,
                   slow, delivered>>
    /\ UNCHANGED nonHubVars

\* handleConnection, ReadMessage fails because the observer went away.
HubPeerGone(c) ==
    /\ hubLeft > 0
    /\ handlerPc[c] = "read"
    /\ hubLeft' = hubLeft - 1
    /\ handlerPc' = [handlerPc EXCEPT ![c] = "detach"]
    /\ UNCHANGED <<hubPc, hubCancelSet, hubCtxDone, lastSpeaking, clients,
                   connCount, connClosed, hubClosePc, hubCloseReturned,
                   hubCloseSaw, bcast, ticks, httpLog, bcPc, bcTodo, bcCur,
                   slow, delivered>>
    /\ UNCHANGED nonHubVars

\* handleConnection, ReadMessage fails because the hub closed the
\* connection.
HubReadClosed(c) ==
    /\ handlerPc[c] = "read"
    /\ c \in connClosed
    /\ handlerPc' = [handlerPc EXCEPT ![c] = "detach"]
    /\ UNCHANGED <<hubPc, hubCancelSet, hubCtxDone, lastSpeaking, clients,
                   connCount, connClosed, hubClosePc, hubCloseReturned,
                   hubCloseSaw, bcast, ticks, hubLeft, httpLog, bcPc,
                   bcTodo, bcCur, slow, delivered>>
    /\ UNCHANGED nonHubVars

\* handleConnection's deferred function, under h.mu: the connection is
\* deleted from h.clients.
HubDetach(c) ==
    /\ handlerPc[c] = "detach"
    /\ ClientsUnlocked
    /\ clients' = clients \ {c}
    /\ handlerPc' = [handlerPc EXCEPT ![c] = "gone"]
    /\ UNCHANGED <<hubPc, hubCancelSet, hubCtxDone, lastSpeaking, connCount,
                   connClosed, hubClosePc, hubCloseReturned, hubCloseSaw,
                   bcast, ticks, hubLeft, httpLog, bcPc, bcTodo, bcCur,
                   slow, delivered>>
    /\ UNCHANGED nonHubVars

\* Close(): h.cancel is nil, and Close goes on to close the connections; or
\* it is not, cancel() is called and Close waits for h.done.
HubCloseCall ==
    /\ hubLeft > 0
    /\ hubClosePc = "idle"
    /\ hubLeft' = hubLeft - 1
    /\ hubCloseReturned' = FALSE
    /\ hubCloseSaw' = hubPc
    /\ IF hubCancelSet
         THEN /\ hubCtxDone' = TRUE
              /\ hubClosePc' = "wait"
         ELSE /\ hubClosePc' = "close"
              /\ UNCHANGED hubCtxDone
    /\ UNCHANGED <<hubPc, hubCancelSet, lastSpeaking, clients, connCount,
                   connClosed, handlerPc, bcast, ticks, httpLog, bcPc,
                   bcTodo, bcCur, slow, delivered>>
    /\ UNCHANGED nonHubVars

\* Close(): <-h.done returns.
HubCloseWait ==
    /\ hubClosePc = "wait"
    /\ hubPc = "done"
    /\ hubClosePc' = "close"
    /\ UNCHANGED <<hubPc, hubCancelSet, hubCtxDone, lastSpeaking, clients,
                   connCount, connClosed, handlerPc, hubCloseReturned,
                   hubCloseSaw, bcast, ticks, hubLeft, httpLog, bcPc,
                   bcTodo, bcCur, slow, delivered>>
    /\ UNCHANGED nonHubVars

\* Close(), under h.mu: every connection of h.clients is closed and
\* h.clients replaced by an empty map; Close returns.
HubCloseConns ==
    /\ hubClosePc = "close"
    /\ ClientsUnlocked
    /\ connClosed' = connClosed \cup clients
    /\ clients' = {}
    /\ hubClosePc' = "idle"
    /\ hubCloseReturned' = TRUE
    /\ UNCHANGED <<hubPc, hubCancelSet, hubCtxDone, lastSpeaking, connCount,
                   handlerPc, hubCloseSaw, bcast, ticks, hubLeft, httpLog,
                   bcPc, bcTodo, bcCur, slow, delivered>>
    /\ UNCHANGED nonHubVars

\* ----------------------------------------------------------- message codec
\* Package protocol.  JSON text is a sequence of tokens: the punctuation,
\* the keys with their colon, one token for every character of a string
\* (an escape sequence is one token) and one for every number.

\* MessageType: the types of the protocol.
MessageTypes ==
    {"frame", "doa", "mic", "state", "motor", "speak", "emotion", "config",
     "ping", "pong"}

\* The characters of the strings given in payloads: a letter, one that
\* encoding/json escapes for HTML, the quote, and a byte that is not valid
\* UTF-8.  U+FFFD, which encoding/json puts for such a byte, is "fffd".
Chars == {"a", "<", "\"", "bad"}

RECURSIVE Strings(_)
Strings(n) ==
    IF n = 0 THEN {<< >>}
    ELSE Strings(n - 1) \cup {Append(s, c) : s \in Strings(n - 1), c \in Chars}

\* The payloads given to NewMessage: nil, or an EmotionCommand (a string,
\* and a number that is left out when it is zero).
CodecPayloads ==
    {[isNil |-> TRUE, name |-> << >>, duration |-> 0]}
      \cup [isNil : {FALSE}, name : Strings(MaxStr), duration : 0..2]

\* time.Now().UnixMilli() at the construction.
Nows == {1, 2}

\* The zero Message and the zero EmotionCommand.
ZeroMessage == [type |-> "", ts |-> 0, data |-> << >>]
ZeroEmotion == [name |-> << >>, duration |-> 0]

\* encoding/json, a string: quoted, with the quote escaped, <, > and &
\* written as \u00XX, and an invalid byte written as U+FFFD.
EncodeChar(c) ==
    CASE c = "<" -> "\\u003c"
      [] c = "\"" -> "\\\""
      [] c = "bad" -> "\\ufffd"
      [] OTHER -> c

DecodeChar(t) ==
    CASE t = "\\u003c" -> "<"
      [] t = "\\\"" -> "\""
      [] t = "\\ufffd" -> "fffd"
      [] OTHER -> t

EncodeString(s) ==
    <<"\"">> \o [i \in 1..Len(s) |-> EncodeChar(s[i])] \o <<"\"">>

\* encoding/json, a number.
Digits == <<"0", "1", "2", "3">>
EncodeNumber(n) == Digits[n + 1]
DecodeNumber(t) == CHOOSE n \in 0..(Len(Digits) - 1) : Digits[n + 1] = t

\* The first place of token tok in b from place from on, or 0.
IndexFrom(b, tok, from) ==
    IF \E i \in from..Len(b) : b[i] = tok
      THEN CHOOSE i \in from..Len(b) :
              b[i] = tok /\ \A j \in from..(i - 1) : b[j] # tok
      ELSE 0

\* The string that starts with the quote at place i of b, decoded.
DecodeStringAt(b, i) ==
    LET end == IndexFrom(b, "\"", i + 1)
    IN  [j \in 1..(end - i - 1) |-> DecodeChar(b[i + j])]

\* json.Marshal(EmotionCommand): name, and duration unless it is zero
\* (omitempty).
Marshal(p) ==
    <<"{", "name:">> \o EncodeString(p.name)
      \o (IF p.duration # 0 THEN <<",", "duration:", EncodeNumber(p.duration)>>
                            ELSE << >>)
      \o <<"}">>

\* json.Unmarshal(data, &EmotionCommand): the literal null leaves the
\* value as it is, an absent field too.
Unmarshal(data) ==
    IF data = <<"null">> THEN ZeroEmotion
    ELSE LET n == IndexFrom(data, "name:", 1)
             d == IndexFrom(data, "duration:", 1)
         IN  [name |-> IF n = 0 THEN << >> ELSE DecodeStringAt(data, n + 1),
              duration |-> IF d = 0 THEN 0 ELSE DecodeNumber(data[d + 1])]

\* NewMessage: data is marshalled unless it is nil, the timestamp is now.
NewMessage(msgType, data, n) ==
    [type |-> msgType,
     ts |-> n,
     data |-> IF data.isNil THEN << >> ELSE Marshal(data)]

\* The encoder's pass over the text a RawMessage gives: white space goes,
\* and <, > and & inside strings are written as \u00XX.
Compact(raw) ==
    LET kept == SelectSeq(raw, LAMBDA t : t # " ")
    IN  [i \in 1..Len(kept) |-> IF kept[i] = "<" THEN "\\u003c" ELSE kept[i]]

\* The data field written whatever m.Data holds: a nil RawMessage is the
\* literal null.
DataFieldAlways(m) ==
    <<",", "data:">> \o (IF Len(m.data) # 0 THEN Compact(m.data) ELSE <<"null">>)

\* The data field of Message, left out when m.Data has no bytes.
DataField(m) ==
    IF Len(m.data) # 0 THEN <<",", "data:">> \o Compact(m.data) ELSE << >>

\* Message.Bytes: json.Marshal(m), with ts and data omitempty.
Bytes(m) ==
    <<"{", "type:">> \o EncodeString(<<m.type>>)
      \o (IF m.ts # 0 THEN <<",", "ts:", EncodeNumber(m.ts)>> ELSE << >>)
      \o DataField(m)
      \o <<"}">>

\* ParseMessage: json.Unmarshal(data, &msg).  Text that is not an object
\* is an error; a field that is absent keeps its zero value; the value of
\* data (an object without objects inside, or null) is copied as it is.
ParseMessage(b) ==
    IF Len(b) < 2 \/ b[1] # "{" \/ b[Len(b)] # "}"
      THEN [ok |-> FALSE, msg |-> ZeroMessage]
      ELSE LET t == IndexFrom(b, "type:", 1)
               s == IndexFrom(b, "ts:", 1)
               d == IndexFrom(b, "data:", 1)
               typ == IF t = 0 THEN << >> ELSE DecodeStringAt(b, t + 1)
               raw == IF d = 0 THEN << >>
                      ELSE IF b[d + 1] = "{"
                             THEN SubSeq(b, d + 1, IndexFrom(b, "}", d + 1))
                             ELSE <<b[d + 1]>>
           IN  [ok |-> TRUE,
                msg |-> [type |-> IF Len(typ) = 0 THEN "" ELSE typ[1],
                         ts |-> IF s = 0 THEN 0 ELSE DecodeNumber(b[s + 1]),
                         data |-> raw]]

\* Message.ParseData: nothing is done when m.Data is nil.
ParseData(m, v) == IF Len(m.data) = 0 THEN v ELSE Unmarshal(m.data)

\* Message.GetEmotionCommand.
GetEmotionCommand(m) == ParseData(m, ZeroEmotion)

\* A message is to be made, serialized and parsed.
CodecInit ==
    /\ codecIn \in [type : MessageTypes, payload : CodecPayloads, now : Nows]
    /\ codecMsg = ZeroMessage
    /\ codecBytes = << >>
    /\ codecParsed = [ok |-> FALSE, msg |-> ZeroMessage]
    /\ codecPc = "new"

\* msg, err := NewMessage(type, payload).
CodecNew ==
    /\ codecPc = "new"
    /\ codecMsg' = NewMessage(codecIn.type, codecIn.payload, codecIn.now)
    /\ codecPc' = "bytes"
    /\ UNCHANGED <<codecIn, codecBytes, codecParsed>>
    /\ UNCHANGED nonCodecVars

\* bytes, err := msg.Bytes().
CodecBytes ==
    /\ codecPc = "bytes"
    /\ codecBytes' = Bytes(codecMsg)
    /\ codecPc' = "parse"
    /\ UNCHANGED <<codecIn, codecMsg, codecParsed>>
    /\ UNCHANGED nonCodecVars

\* parsed, err := ParseMessage(bytes).
CodecParse ==
    /\ codecPc = "parse"
    /\ codecParsed' = ParseMessage(codecBytes)
    /\ codecPc' = "done"
    /\ UNCHANGED <<codecIn, codecMsg, codecBytes>>
    /\ UNCHANGED nonCodecVars

\* The codec, idle.
CodecIdle ==
    /\ codecIn = [type |-> "ping",
                  payload |-> [isNil |-> TRUE, name |-> << >>, duration |-> 0],
                  now |-> 1]
    /\ codecMsg = ZeroMessage
    /\ codecBytes = << >>
    /\ codecParsed = [ok |-> FALSE, msg |-> ZeroMessage]
    /\ codecPc = "done"

\* ------------------------------------------------------- coordinate math
\* math.Pi and 2 * math.Pi, in units of 1/100.
Pi == 2 * HalfPi
TwoPi == 2 * Pi

\* The angles NormalizeAngle is given.
Angles == (-MaxAngle)..MaxAngle

\* NormalizeAngle's first loop: for angle > math.Pi { angle -= 2 * math.Pi }.
RECURSIVE NormalizeDown(_)
NormalizeDown(angle) ==
    IF angle > Pi THEN NormalizeDown(angle - TwoPi) ELSE angle

\* The first loop with the test angle >= math.Pi.
RECURSIVE NormalizeDownInclusive(_)
NormalizeDownInclusive(angle) ==
    IF angle >= Pi THEN NormalizeDownInclusive(angle - TwoPi) ELSE angle

\* NormalizeAngle's second loop: for angle < -math.Pi { angle += 2 * math.Pi }.
RECURSIVE NormalizeUp(_)
NormalizeUp(angle) ==
    IF angle < -Pi THEN NormalizeUp(angle + TwoPi) ELSE angle

\* NormalizeAngle with the first loop's test inclusive.
NormalizeAngleInclusive(angle) == NormalizeUp(NormalizeDownInclusive(angle))

\* NormalizeAngle.
NormalizeAngle(angle) == NormalizeUp(NormalizeDown(angle))

\* An angle is to be normalized.
AngleInit ==
    /\ normIn \in Angles
    /\ normOut = 0
    /\ normDone = FALSE

\* normalized := NormalizeAngle(angle).
NormalizeCall ==
    /\ ~normDone
    /\ normOut' = NormalizeAngle(normIn)
    /\ normDone' = TRUE
    /\ UNCHANGED <<normIn>>
    /\ UNCHANGED nonAngleVars

\* The coordinate math, idle.
AngleIdle ==
    /\ normIn = 0
    /\ normOut = 0
    /\ normDone = TRUE

\* ------------------------------------------- the client mutex and callbacks
\* handleMessage, the on<Kind> setters and the calls a callback makes, with
\* c.mu explicit: a goroutine takes it only when it is free, and the goroutine
\* that holds it is recorded.

\* The kinds of message followed: the one whose slot a callback replaces,
\* and another.
LockKinds == {"motor", "emotion"}

\* The functions given to the setters.
Callbacks == {1, 2}

\* What a callback does before it returns: nothing, or one call on the
\* client that takes c.mu.
CallbackOps == {"none", "SendMessage", "IsConnected", "OnMotorCommand"}

\* NewClient and the setters called before Connect: every slot is nil or
\* holds the first function.
LockInit ==
    /\ mu = "free"
    /\ slots \in [LockKinds -> {Nil, 1}]
    /\ hmPc = "idle"
    /\ hmMsg = "motor"
    /\ snap = [k \in LockKinds |-> Nil]
    /\ slotsAtSnap = [k \in LockKinds |-> Nil]
    /\ cbOp = "none"
    /\ setPc = "idle"
    /\ setArg = [kind |-> "motor", cb |-> 1]
    /\ invoked = << >>
    /\ isConnectedCalls = 0

\* readLoop hands handleMessage a message of kind k, which parses.
HmReceive(k) ==
    /\ hmPc = "idle"
    /\ lockLeft > 0
    /\ lockLeft' = lockLeft - 1
    /\ hmMsg' = k
    /\ hmPc' = "lock"
    /\ UNCHANGED <<mu, slots, snap, slotsAtSnap, cbOp, setPc, setArg, invoked,
                   isConnectedCalls>>
    /\ UNCHANGED nonLockVars

\* handleMessage: c.mu.Lock().
HmLock ==
    /\ hmPc = "lock"
    /\ mu = "free"
    /\ mu' = "read"
    /\ hmPc' = "locked"
    /\ UNCHANGED <<slots, hmMsg, snap, slotsAtSnap, cbOp, setPc, setArg, invoked,
                   isConnectedCalls, lockLeft>>
    /\ UNCHANGED nonLockVars

\* handleMessage: the four slots are copied, and c.mu is kept.
HmSnapshotHolding ==
    /\ hmPc = "locked"
    /\ snap' = slots
    /\ slotsAtSnap' = slots
    /\ hmPc' = "switch"
    /\ UNCHANGED <<mu, slots, hmMsg, cbOp, setPc, setArg, invoked,
                   isConnectedCalls, lockLeft>>
    /\ UNCHANGED nonLockVars

\* handleMessage: the four slots are copied; c.mu.Unlock().
HmSnapshot ==
    /\ hmPc = "locked"
    /\ snap' = slots
    /\ slotsAtSnap' = slots
    /\ mu' = "free"
    /\ hmPc' = "switch"
    /\ UNCHANGED <<slots, hmMsg, cbOp, setPc, setArg, invoked, isConnectedCalls,
                   lockLeft>>
    /\ UNCHANGED nonLockVars

\* The function handleMessage calls for a message of kind k: the slot as it
\* is when the call is made.
CallbackOfSlot(k) == slots[k]

\* The function handleMessage calls for a message of kind k: its copy of
\* the slot.
CallbackOf(k) == snap[k]

\* handleMessage, the switch on msg.Type: a nil copy returns, another is
\* called (the payload unmarshals) and does op.
HmSwitch(op) ==
    /\ hmPc = "switch"
    /\ IF CallbackOf(hmMsg) = Nil
         THEN /\ op = "none"
              /\ hmPc' = "idle"
              /\ UNCHANGED <<invoked, cbOp>>
         ELSE /\ invoked' = Append(invoked, <<hmMsg, CallbackOf(hmMsg)>>)
              /\ cbOp' = op
              /\ hmPc' = "callback"
    /\ UNCHANGED <<mu, slots, hmMsg, snap, slotsAtSnap, setPc, setArg,
                   isConnectedCalls, lockLeft>>
    /\ UNCHANGED nonLockVars

\* The callback calls SendMessage, IsConnected or OnMotorCommand, which
\* begins with c.mu.Lock().
CbLock ==
    /\ hmPc = "callback"
    /\ cbOp # "none"
    /\ mu = "free"
    /\ mu' = "read"
    /\ hmPc' = "cbLocked"
    /\ UNCHANGED <<slots, hmMsg, snap, slotsAtSnap, cbOp, setPc, setArg, invoked,
                   isConnectedCalls, lockLeft>>
    /\ UNCHANGED nonLockVars

\* The call of the callback does its critical section (the setter stores
\* the second function), c.mu.Unlock(), and returns.
CbUnlock ==
    /\ hmPc = "cbLocked"
    /\ slots' = IF cbOp = "OnMotorCommand"
                  THEN [slots EXCEPT !["motor"] = 2]
                  ELSE slots
    /\ isConnectedCalls' = IF cbOp = "IsConnected"
                             THEN isConnectedCalls + 1
                             ELSE isConnectedCalls
    /\ mu' = "free"
    /\ cbOp' = "none"
    /\ hmPc' = "callback"
    /\ UNCHANGED <<hmMsg, snap, slotsAtSnap, setPc, setArg, invoked, lockLeft>>
    /\ UNCHANGED nonLockVars

\* The callback returns, and handleMessage with it.
CbReturn ==
    /\ hmPc = "callback"
    /\ cbOp = "none"
    /\ hmPc' = "idle"
    /\ UNCHANGED <<mu, slots, hmMsg, snap, slotsAtSnap, cbOp, setPc, setArg,
                   invoked, isConnectedCalls, lockLeft>>
    /\ UNCHANGED nonLockVars

\* Another goroutine calls on<Kind>(cb): c.mu.Lock().
SetLock(k, cb) ==
    /\ setPc = "idle"
    /\ lockLeft > 0
    /\ lockLeft' = lockLeft - 1
    /\ setArg' = [kind |-> k, cb |-> cb]
    /\ setPc' = "lock"
    /\ UNCHANGED <<mu, slots, hmPc, hmMsg, snap, slotsAtSnap, cbOp, invoked,
                   isConnectedCalls>>
    /\ UNCHANGED nonLockVars

\* The setter is given c.mu.
SetLocked ==
    /\ setPc = "lock"
    /\ mu = "free"
    /\ mu' = "setter"
    /\ setPc' = "locked"
    /\ UNCHANGED <<slots, hmPc, hmMsg, snap, slotsAtSnap, cbOp, setArg, invoked,
                   isConnectedCalls, lockLeft>>
    /\ UNCHANGED nonLockVars

\* The setter: the slot is assigned; c.mu.Unlock().
SetStore ==
    /\ setPc = "locked"
    /\ slots' = [slots EXCEPT ![setArg.kind] = setArg.cb]
    /\ mu' = "free"
    /\ setPc' = "idle"
    /\ UNCHANGED <<hmPc, hmMsg, snap, slotsAtSnap, cbOp, setArg, invoked,
                   isConnectedCalls, lockLeft>>
    /\ UNCHANGED nonLockVars

\* The mutex and the callbacks, idle.
LockIdle ==
    /\ mu = "free"
    /\ slots = [k \in LockKinds |-> Nil]
    /\ hmPc = "idle"
    /\ hmMsg = "motor"
    /\ snap = [k \in LockKinds |-> Nil]
    /\ slotsAtSnap = [k \in LockKinds |-> Nil]
    /\ cbOp = "none"
    /\ setPc = "idle"
    /\ setArg = [kind |-> "motor", cb |-> 1]
    /\ invoked = << >>
    /\ isConnectedCalls = 0
    /\ lockLeft = 0

\* The hub, idle.
HubIdle ==
    /\ HubInit
    /\ hubLeft = 0

\* ------------------------------------------- the mutexes of tracker and source

\* t.mu, t.subsMu and the USB source's u.mu.
Mutexes == {"t.mu", "t.subsMu", "u.mu"}

\* The goroutine of Run and the callers of the tracker's and the source's
\* methods.
Callers == {"latest", "target", "stats", "subscribe", "unsubscribe", "stop",
            "healthy", "close"}
GuardTasks == {"run"} \cup Callers

\* The holder of a mutex that is free.
NoTask == "none"

\* One statement of a call: what it does, and to which mutex or field.
Stmt(op, arg) == [op |-> op, arg |-> arg]

\* USBSource.GetDOA: under u.mu for the whole call.
GetDOAProgram ==
    << Stmt("lock", "u.mu"), Stmt("write", "source"), Stmt("unlock", "u.mu") >>

\* poll(), GetDOA has failed: pollErrorCount under t.mu.
PollFailedProgram ==
    GetDOAProgram \o
    << Stmt("lock", "t.mu"), Stmt("write", "counters"), Stmt("unlock", "t.mu") >>

\* poll(), GetDOA has returned a reading: the counters, latest and history
\* under t.mu, and inside it notifySubscribers under t.subsMu, shared.
PollProgram ==
    GetDOAProgram \o
    << Stmt("lock", "t.mu"), Stmt("write", "counters"), Stmt("write", "latest"),
       Stmt("write", "history"), Stmt("rlock", "t.subsMu"), Stmt("read", "subs"),
       Stmt("runlock", "t.subsMu"), Stmt("unlock", "t.mu") >>

\* Run, the case of ctx.Done: pollCount and pollErrorCount are logged, and
\* the deferred close(t.done) runs.
RunExitProgram == << Stmt("read", "counters"), Stmt("close", "t.done") >>

\* GetLatest.
GetLatestProgram ==
    << Stmt("rlock", "t.mu"), Stmt("read", "latest"), Stmt("runlock", "t.mu") >>

\* GetTarget.
GetTargetProgram ==
    << Stmt("rlock", "t.mu"), Stmt("read", "latest"), Stmt("runlock", "t.mu") >>

\* USBSource.Healthy.
HealthyProgram ==
    << Stmt("lock", "u.mu"), Stmt("read", "source"), Stmt("unlock", "u.mu") >>

\* Stats: under t.mu, shared, the counters, len(t.history), len(t.subs),
\* t.source.Healthy() and the fields of t.latest.
StatsProgram ==
    << Stmt("rlock", "t.mu"), Stmt("read", "counters"), Stmt("read", "history"),
       Stmt("read", "subs") >>
    \o HealthyProgram \o
    << Stmt("read", "latest"), Stmt("runlock", "t.mu") >>

\* Subscribe.
SubscribeProgram ==
    << Stmt("lock", "t.subsMu"), Stmt("write", "subs"), Stmt("unlock", "t.subsMu") >>

\* Unsubscribe that reads t.latest, under t.mu, while it holds t.subsMu.
UnsubscribeProgramReadsLatest ==
    << Stmt("lock", "t.subsMu"), Stmt("read", "subs") >>
    \o GetLatestProgram \o
    << Stmt("write", "subs"), Stmt("unlock", "t.subsMu") >>

\* Unsubscribe.
UnsubscribeProgram ==
    << Stmt("lock", "t.subsMu"), Stmt("read", "subs"), Stmt("write", "subs"),
       Stmt("unlock", "t.subsMu") >>

\* Stop, called when Run has stored t.cancel: cancel, <-t.done, and the
\* channels closed under t.subsMu.
StopProgram ==
    << Stmt("cancel", "ctx"), Stmt("wait", "t.done"), Stmt("lock", "t.subsMu"),
       Stmt("write", "subs"), Stmt("unlock", "t.subsMu") >>

\* USBSource.Close.
CloseProgram ==
    << Stmt("lock", "u.mu"), Stmt("write", "source"), Stmt("unlock", "u.mu") >>

\* The statements of each caller's method.
ProgramOf(task) ==
    CASE task = "latest" -> GetLatestProgram
      [] task = "target" -> GetTargetProgram
      [] task = "stats" -> StatsProgram
      [] task = "subscribe" -> SubscribeProgram
      [] task = "unsubscribe" -> UnsubscribeProgram
      [] task = "stop" -> StopProgram
      [] task = "healthy" -> HealthyProgram
      [] task = "close" -> CloseProgram

\* The task holds the mutex, exclusively or shared, in h.
HoldsIn(h, task, m) == h[m].w = task \/ task \in h[m].r

\* The task holds the mutex, exclusively or shared.
Holds(task, m) == HoldsIn(held, task, m)

\* Run is in its loop, between two ticks; no call is in progress.
GuardInit ==
    /\ held = [m \in Mutexes |-> [w |-> NoTask, r |-> {}]]
    /\ pending = [m \in Mutexes |-> {}]
    /\ prog = [t \in GuardTasks |-> << >>]
    /\ gpc = [t \in GuardTasks |-> 0]
    /\ touched = {}
    /\ guardCtxDone = FALSE
    /\ guardDone = FALSE

\* The statement the task is at.
Current(task) == prog[task][gpc[task]]

\* The task is at a statement of the kind op.
At(task, op) ==
    /\ gpc[task] \in 1..Len(prog[task])
    /\ Current(task).op = op

RECURSIVE NextStop(_, _)
\* The first statement of p, from the i-th on, that is not a read or a
\* write of a field: the statements that touch the mutexes, the context and
\* t.done are the ones at which tasks meet.
NextStop(p, i) ==
    IF i <= Len(p) /\ p[i].op \in {"read", "write"} THEN NextStop(p, i + 1) ELSE i

\* The task, holding what it holds in h, runs p from its i-th statement to
\* the next one at which tasks meet: the accesses it makes are recorded, and
\* it returns when it reaches the end of p.
RunFrom(task, p, i, h) ==
    LET j == NextStop(p, i)
    IN  /\ touched' = { [task |-> task, kind |-> p[k].op, field |-> p[k].arg,
                         tmu |-> HoldsIn(h, task, "t.mu"),
                         subsMu |-> HoldsIn(h, task, "t.subsMu")] : k \in i..(j - 1) }
        /\ gpc' = [gpc EXCEPT ![task] = IF j > Len(p) THEN 0 ELSE j]
        /\ prog' = [prog EXCEPT ![task] = IF j > Len(p) THEN << >> ELSE p]

\* The task goes on after the statement it is at.
Advance(task) == RunFrom(task, prog[task], gpc[task] + 1, held')

\* A method of the tracker or of the source is called.
Call(task) ==
    /\ callsLeft > 0
    /\ task \in Callers
    /\ gpc[task] = 0
    /\ callsLeft' = callsLeft - 1
    /\ RunFrom(task, ProgramOf(task), 1, held)
    /\ UNCHANGED <<held, pending, guardCtxDone, guardDone, loopsLeft>>
    /\ UNCHANGED nonGuardVars

\* Run's select takes the tick (which it may also when ctx.Done is ready)
\* and calls poll(), in which GetDOA fails or returns a reading.
RunTick(p) ==
    /\ loopsLeft > 0
    /\ gpc["run"] = 0
    /\ ~guardDone
    /\ loopsLeft' = loopsLeft - 1
    /\ RunFrom("run", p, 1, held)
    /\ UNCHANGED <<held, pending, guardCtxDone, guardDone, callsLeft>>
    /\ UNCHANGED nonGuardVars

\* Run's select takes ctx.Done.
GuardRunExit ==
    /\ gpc["run"] = 0
    /\ guardCtxDone
    /\ ~guardDone
    /\ RunFrom("run", RunExitProgram, 1, held)
    /\ UNCHANGED <<held, pending, guardCtxDone, guardDone, loopsLeft, callsLeft>>
    /\ UNCHANGED nonGuardVars

\* Lock(): the mutex is taken when no task holds it; otherwise the task
\* blocks, and from then on no new RLock() passes it.
Acquire(task) ==
    /\ At(task, "lock")
    /\ LET m == Current(task).arg
       IN  IF held[m].w = NoTask /\ held[m].r = {}
             THEN /\ held' = [held EXCEPT ![m].w = task]
                  /\ pending' = [pending EXCEPT ![m] = @ \ {task}]
                  /\ Advance(task)
             ELSE /\ task \notin pending[m]
                  /\ pending' = [pending EXCEPT ![m] = @ \cup {task}]
                  /\ touched' = {}
                  /\ UNCHANGED <<held, gpc, prog>>
    /\ UNCHANGED <<guardCtxDone, guardDone, loopsLeft, callsLeft>>
    /\ UNCHANGED nonGuardVars

\* RLock(): taken when no task holds the mutex exclusively and none is
\* blocked in Lock().
AcquireShared(task) ==
    /\ At(task, "rlock")
    /\ LET m == Current(task).arg
       IN  /\ held[m].w = NoTask
           /\ pending[m] = {}
           /\ held' = [held EXCEPT ![m].r = @ \cup {task}]
    /\ Advance(task)
    /\ UNCHANGED <<pending, guardCtxDone, guardDone, loopsLeft, callsLeft>>
    /\ UNCHANGED nonGuardVars

\* Unlock().
Release(task) ==
    /\ At(task, "unlock")
    /\ held' = [held EXCEPT ![Current(task).arg].w = NoTask]
    /\ Advance(task)
    /\ UNCHANGED <<pending, guardCtxDone, guardDone, loopsLeft, callsLeft>>
    /\ UNCHANGED nonGuardVars

\* RUnlock().
ReleaseShared(task) ==
    /\ At(task, "runlock")
    /\ held' = [held EXCEPT ![Current(task).arg].r = @ \ {task}]
    /\ Advance(task)
    /\ UNCHANGED <<pending, guardCtxDone, guardDone, loopsLeft, callsLeft>>
    /\ UNCHANGED nonGuardVars

\* Stop: t.cancel().
CancelRun(task) ==
    /\ At(task, "cancel")
    /\ guardCtxDone' = TRUE
    /\ UNCHANGED held
    /\ Advance(task)
    /\ UNCHANGED <<pending, guardDone, loopsLeft, callsLeft>>
    /\ UNCHANGED nonGuardVars

\* Stop: <-t.done.
WaitDone(task) ==
    /\ At(task, "wait")
    /\ guardDone
    /\ UNCHANGED held
    /\ Advance(task)
    /\ UNCHANGED <<pending, guardCtxDone, guardDone, loopsLeft, callsLeft>>
    /\ UNCHANGED nonGuardVars

\* Run: the deferred close(t.done).
CloseDone(task) ==
    /\ At(task, "close")
    /\ guardDone' = TRUE
    /\ UNCHANGED held
    /\ Advance(task)
    /\ UNCHANGED <<pending, guardCtxDone, loopsLeft, callsLeft>>
    /\ UNCHANGED nonGuardVars

\* A task in a call takes its next statement.
Exec(task) ==
    \/ Acquire(task)
    \/ AcquireShared(task)
    \/ Release(task)
    \/ ReleaseShared(task)
    \/ CancelRun(task)
    \/ WaitDone(task)
    \/ CloseDone(task)

\* No call of the tracker or of the source.
GuardIdle ==
    /\ GuardInit
    /\ loopsLeft = 0
    /\ callsLeft = 0

\* The cloud client, idle.
CloudIdle ==
    /\ CloudInit
    /\ budget = 0
    /\ callbacks = {}
    /\ peerMsgs = {}

\* The tracker, idle.
TrackerIdle ==
    /\ TrackerInit
    /\ cfg = DefaultCfg
    /\ pollsLeft = 0
    /\ changesLeft = 0

\* The tracker under each configuration, over a source that changes.
TrackerSpecInit ==
    /\ CloudIdle
    /\ UsbIdle
    /\ HubIdle
    /\ CodecIdle
    /\ AngleIdle
    /\ LockIdle
    /\ GuardIdle
    /\ TrackerInit
    /\ cfg \in Configs
    /\ pollsLeft = MaxPolls
    /\ changesLeft = MaxChanges

TrackerNext ==
    \/ RunStart
    \/ RunSetCancel
    \/ Poll
    \/ GetTargetCall
    \/ \E a \in RawAngles : SetAngle(a)
    \/ SetSpeaking
    \/ SetErr

TrackerSpec == TrackerSpecInit /\ [][TrackerNext]_vars

\* The tracker with poll() taken statement by statement, its readers and
\* its subscribers.
AtomicInit ==
    /\ CloudIdle
    /\ UsbIdle
    /\ HubIdle
    /\ CodecIdle
    /\ AngleIdle
    /\ LockIdle
    /\ GuardIdle
    /\ TrackerInit
    /\ cfg \in {c \in Configs : c.historySize \in 1..MaxAtomicPolls}
    /\ pollsLeft = MaxAtomicPolls
    /\ changesLeft = MaxReads

AtomicNext ==
    \/ RunStart
    \/ RunSetCancel
    \/ PollLock
    \/ PollLatch
    \/ PollStore
    \/ PollAppend
    \/ PollNotify
    \/ PollUnlock
    \/ Subscribe
    \/ \E ch \in 1..MaxSubs : Receive(ch)
    \/ GetLatestCall
    \/ GetTargetCall
    \/ StatsCall
    \/ SetSpeaking

AtomicSpec == AtomicInit /\ [][AtomicNext]_vars

\* Configurations for the smoothing: ema_alpha 0, 0.5 and 1, with a history
\* of no, one and three entries.
EmaConfigs ==
    { [DefaultCfg EXCEPT !.alpha = a, !.historySize = h] :
        a \in {0, 50, 100}, h \in {0, 1, 3} }

\* The tracker over a source whose angle changes and which fails.
EmaInit ==
    /\ CloudIdle
    /\ UsbIdle
    /\ HubIdle
    /\ CodecIdle
    /\ AngleIdle
    /\ LockIdle
    /\ GuardIdle
    /\ TrackerInit
    /\ cfg \in EmaConfigs
    /\ pollsLeft = MaxEmaPolls
    /\ changesLeft = MaxChanges

EmaNext ==
    \/ RunStart
    \/ RunSetCancel
    \/ PollLock
    \/ PollLatch
    \/ PollStore
    \/ PollAppend
    \/ PollNotify
    \/ PollUnlock
    \/ \E a \in RawAngles : SetAngle(a)
    \/ SetErr

EmaSpec == EmaInit /\ [][EmaNext]_vars

\* The tracker over a steady source, with subscribers.
FanoutInit ==
    /\ CloudIdle
    /\ UsbIdle
    /\ HubIdle
    /\ CodecIdle
    /\ AngleIdle
    /\ LockIdle
    /\ GuardIdle
    /\ TrackerInit
    /\ cfg = DefaultCfg
    /\ pollsLeft = SinkCap + MaxOverflow
    /\ changesLeft = MaxChanges

FanoutNext ==
    \/ RunStart
    \/ RunSetCancel
    \/ Poll
    \/ Subscribe
    \/ \E ch \in 1..MaxSubs : Receive(ch)

FanoutSpec == FanoutInit /\ [][FanoutNext]_vars

\* The tracker started, stopped and cancelled, with subscribers that come
\* and go.
LifecycleInit ==
    /\ CloudIdle
    /\ UsbIdle
    /\ HubIdle
    /\ CodecIdle
    /\ AngleIdle
    /\ LockIdle
    /\ GuardIdle
    /\ TrackerInit
    /\ cfg = DefaultCfg
    /\ pollsLeft = MaxOverflow
    /\ changesLeft = MaxChanges

LifecycleNext ==
    \/ RunStart
    \/ RunSetCancel
    \/ RunExit
    \/ TrackerCancel
    \/ Poll
    \/ Subscribe
    \/ \E ch \in 1..MaxSubs : Unsubscribe(ch)
    \/ SetErr
    \/ StopCall
    \/ StopWait
    \/ StopClose

LifecycleSpec == LifecycleInit /\ [][LifecycleNext]_vars

\* The USB source under each configuration, over a device that answers,
\* fails and comes back.
UsbSpecInit ==
    /\ CloudIdle
    /\ TrackerIdle
    /\ usbCfg \in UsbConfigs
    /\ UsbInit
    /\ HubIdle
    /\ CodecIdle
    /\ AngleIdle
    /\ LockIdle
    /\ GuardIdle
    /\ usbLeft = MaxUsbCalls

UsbNext ==
    \/ \E reopenOk, e1, e2 \in BOOLEAN :
          \E primary \in PrimaryOutcomes : GetDOA(reopenOk, primary, e1, e2)
    \/ UsbClose

UsbSpec == UsbSpecInit /\ [][UsbNext]_vars

\* Configurations for the backoff: the initial backoff below, and above,
\* the maximum, and a maximum below the default's initial backoff.
UsbBackoffConfigs ==
    { [maxErrors |-> 1, initialBackoff |-> 1, maxBackoff |-> 3],
      [maxErrors |-> 1, initialBackoff |-> 3, maxBackoff |-> 2],
      [maxErrors |-> 1, initialBackoff |-> 0, maxBackoff |-> 0] }

\* The USB source with reconnect's sleep as a state of the call, and a
\* caller that cancels the context.
UsbSleepInit ==
    /\ CloudIdle
    /\ TrackerIdle
    /\ usbCfg \in UsbBackoffConfigs \cup {DefaultUSBSourceConfig}
    /\ UsbInit
    /\ HubIdle
    /\ CodecIdle
    /\ AngleIdle
    /\ LockIdle
    /\ GuardIdle
    /\ usbLeft = MaxUsbCalls

UsbSleepNext ==
    \/ \E reopenOk, e1, e2 \in BOOLEAN :
          \E primary \in PrimaryOutcomes : GetDOAWithDevice(reopenOk, primary, e1, e2)
    \/ ReconnectSleep
    \/ \E reopenOk, e1, e2 \in BOOLEAN :
          \E primary \in PrimaryOutcomes : ReconnectWake(reopenOk, primary, e1, e2)
    \/ UsbCtxCancel
    \/ UsbClose

UsbSleepSpec == UsbSleepInit /\ [][UsbSleepNext]_vars

\* The hub over a tracker that polls a source whose speaker starts and
\* stops.
VadInit ==
    /\ CloudIdle
    /\ UsbIdle
    /\ TrackerInit
    /\ cfg \in {c \in Configs : c.latchDur <= 2}
    /\ pollsLeft = MaxTicks + 1
    /\ changesLeft = MaxChanges + 1
    /\ HubInit
    /\ hubLeft = 0
    /\ CodecIdle
    /\ AngleIdle
    /\ LockIdle
    /\ GuardIdle

VadNext ==
    \/ RunStart
    \/ RunSetCancel
    \/ Poll
    \/ SetSpeaking
    \/ HubRunStart
    \/ HubRunSetCancel
    \/ HubTick

VadSpec == VadInit /\ [][VadNext]_vars

\* The hub started, closed and cancelled, with observers that come and go.
HubSpecInit ==
    /\ CloudIdle
    /\ UsbIdle
    /\ TrackerIdle
    /\ HubInit
    /\ hubLeft = MaxHubMoves
    /\ CodecIdle
    /\ AngleIdle
    /\ LockIdle
    /\ GuardIdle

HubNext ==
    \/ HubRunStart
    \/ HubRunSetCancel
    \/ HubRunExit
    \/ HubCancel
    \/ HubTick
    \/ \E req \in Requests : UpgradeHandler(req)
    \/ \E c \in 1..MaxConns :
          HubAttach(c) \/ HubPeerGone(c) \/ HubReadClosed(c) \/ HubDetach(c)
    \/ HubCloseCall
    \/ HubCloseWait
    \/ HubCloseConns

HubSpec == HubSpecInit /\ [][HubNext]_vars

\* The hub with broadcast taken write by write, observers that send
\* commands and observers that stop reading.
BroadcastInit ==
    /\ CloudIdle
    /\ UsbIdle
    /\ TrackerIdle
    /\ HubInit
    /\ hubLeft = MaxHubMoves
    /\ CodecIdle
    /\ AngleIdle
    /\ LockIdle
    /\ GuardIdle

BroadcastNext ==
    \/ HubRunStart
    \/ HubRunSetCancel
    \/ BroadcastLock
    \/ \E c \in 1..MaxConns : BroadcastWrite(c)
    \/ BroadcastWritten
    \/ BroadcastUnlock
    \/ \E req \in Requests : UpgradeHandler(req)
    \/ \E c \in 1..MaxConns :
          HubAttach(c) \/ HubPeerGone(c) \/ HubDetach(c)
    \/ \E c \in 1..MaxConns : HubCommand(c) \/ HubReplied(c)
    \/ \E c \in 1..MaxConns : ObserverStalls(c) \/ ObserverDrains(c)

BroadcastSpec == BroadcastInit /\ [][BroadcastNext]_vars

\* The codec alone: a message is made, serialized and parsed.
CodecSpecInit ==
    /\ CloudIdle
    /\ UsbIdle
    /\ TrackerIdle
    /\ HubIdle
    /\ AngleIdle
    /\ LockIdle
    /\ GuardIdle
    /\ CodecInit

CodecNext ==
    \/ CodecNew
    \/ CodecBytes
    \/ CodecParse

CodecSpec == CodecSpecInit /\ [][CodecNext]_vars

\* The connection loop alone, against a peer that refuses dials, accepts
\* them, and closes the connections it accepted.
BackoffInit ==
    /\ \E c \in SmallConfigs \cup {DefaultConfig} : NewClient(c)
    /\ budget = MaxFails
    /\ callbacks = {}
    /\ peerMsgs = {}
    /\ TrackerIdle
    /\ UsbIdle
    /\ HubIdle
    /\ CodecIdle
    /\ AngleIdle
    /\ LockIdle
    /\ GuardIdle

BackoffNext ==
    \/ Connect \/ ParentCancel
    \/ \E h \in 1..dials : PeerClose(h)
    \/ LoopTop \/ DialOK \/ DialFail \/ Install
    \/ BackoffElapsed \/ BackoffCancelled
    \/ ReadTop \/ ReadSnap \/ ReadErr \/ ReadErrClose
    \/ \E p \in 1..dials : PingCancelled(p)

BackoffSpec == BackoffInit /\ [][BackoffNext]_vars

\* handleMessage against a setter on another goroutine, with c.mu explicit.
LockSpecInit ==
    /\ CloudIdle
    /\ UsbIdle
    /\ TrackerIdle
    /\ HubIdle
    /\ CodecIdle
    /\ AngleIdle
    /\ GuardIdle
    /\ LockInit
    /\ lockLeft = MaxLockMoves

LockNext ==
    \/ \E k \in LockKinds : HmReceive(k)
    \/ HmLock
    \/ HmSnapshot
    \/ \E op \in CallbackOps : HmSwitch(op)
    \/ CbLock
    \/ CbUnlock
    \/ CbReturn
    \/ \E k \in LockKinds, cb \in Callbacks : SetLock(k, cb)
    \/ SetLocked
    \/ SetStore

\* Scheduling: a goroutine that can take a step eventually takes one, and a
\* callback eventually makes its call and returns.
LockFairness ==
    /\ WF_vars(HmLock)
    /\ WF_vars(HmSnapshot)
    /\ WF_vars(\E op \in CallbackOps : HmSwitch(op))
    /\ WF_vars(CbLock)
    /\ WF_vars(CbUnlock)
    /\ WF_vars(CbReturn)
    /\ WF_vars(SetLocked)
    /\ WF_vars(SetStore)

LockSpec == LockSpecInit /\ [][LockNext]_vars /\ LockFairness

\* NormalizeAngle alone.
AngleSpecInit ==
    /\ CloudIdle
    /\ UsbIdle
    /\ TrackerIdle
    /\ HubIdle
    /\ CodecIdle
    /\ AngleInit
    /\ LockIdle
    /\ GuardIdle

AngleNext == NormalizeCall

AngleSpec == AngleSpecInit /\ [][AngleNext]_vars

\* The steps of the client's own goroutines.
LoopStep ==
    \/ LoopTop \/ DialOK \/ DialFail \/ Install
    \/ BackoffElapsed \/ BackoffCancelled
    \/ ReadTop \/ ReadSnap \/ ReadErr \/ ReadErrClose
    \/ HandleMessage \/ PongCall

SendStep(t) == WriteOK(t) \/ WriteFail(t) \/ WriteFailClose(t)

PingStep(p) == PingTick(p) \/ PingCancelled(p) \/ PingWriteOK(p) \/ PingWriteFail(p)

Next ==
    \/ Connect \/ ParentCancel \/ CloseCancel \/ CloseConn
    \/ \E h \in 1..dials : PeerClose(h)
    \/ LoopStep
    \/ \E m \in Messages : ReadMsg(m)
    \/ \E t \in Senders : SendCall(t)
    \/ \E t \in Tasks : SendStep(t)
    \/ \E p \in 1..dials : PingStep(p)

\* The client with a motor callback, against a peer that sends pings and
\* motor commands.
Init ==
    /\ CloudInit
    /\ budget = MaxEvents
    /\ TrackerIdle
    /\ UsbIdle
    /\ HubIdle
    /\ CodecIdle
    /\ AngleIdle
    /\ LockIdle
    /\ GuardIdle
    /\ callbacks = {"motor"}
    /\ peerMsgs = {m \in Messages : m.type \in {"ping", "motor"} /\ m.dataOk /\ m.payload = 1}

Spec == Init /\ [][Next]_vars

\* The client without callbacks, with one and with all of them, against a
\* peer that sends every kind of message.
DispatchInit ==
    /\ CloudInit
    /\ TrackerIdle
    /\ UsbIdle
    /\ HubIdle
    /\ CodecIdle
    /\ AngleIdle
    /\ LockIdle
    /\ GuardIdle
    /\ budget = MaxEvents - 1
    /\ callbacks \in {{}, {"motor"}, Kinds}
    /\ peerMsgs = Messages

DispatchSpec == DispatchInit /\ [][Next]_vars

\* Scheduling: every goroutine that can take a step eventually takes one
\* (the Go scheduler), a write returns (it carries a deadline), a timer that
\* was started fires, a select with a ready case returns, and a Close()
\* that was called runs to its end.  Nothing is assumed of the peer.
MaxPings == MaxEvents + 1
Fairness ==
    /\ WF_vars(LoopStep)
    /\ WF_vars(CloseConn)
    /\ \A t \in Tasks : WF_vars(SendStep(t))
    /\ \A p \in 1..MaxPings :
          WF_vars(PingCancelled(p) \/ PingWriteOK(p) \/ PingWriteFail(p))

\* The client of Init with one environment move less.
FairInit ==
    /\ CloudInit
    /\ TrackerIdle
    /\ UsbIdle
    /\ HubIdle
    /\ CodecIdle
    /\ AngleIdle
    /\ LockIdle
    /\ GuardIdle
    /\ budget = MaxEvents - 1
    /\ callbacks = {"motor"}
    /\ peerMsgs = {m \in Messages : m.type \in {"ping", "motor"} /\ m.dataOk /\ m.payload = 1}

FairSpec == FairInit /\ [][Next]_vars /\ Fairness

\* ------------------------------------------------------------------ claims

\* The writes in progress on handle h: SendMessage callers between their
\* snapshot and the return of WriteMessage, ping tasks in WriteControl.
WritersOn(h) ==
    {<<"send", t>> : t \in {u \in Tasks : spc[u] = "write" /\ sconn[u] = h}}
      \cup {<<"ping", p>> : p \in {q \in DOMAIN ping : ping[q].pc = "write" /\ ping[q].conn = h}}

\* C1: at most one write to the underlying connection is in progress at any
\* time, over the senders, the read task's pong and the ping tasks.
C1_WritesSerialized == \A h \in 1..dials : Cardinality(WritersOn(h)) <= 1

\* C2: at most one connection is open, and it is the one the client holds:
\* a connection is installed only when the previous handle has been closed.
C2_AtMostOneConnection ==
    /\ Cardinality(open) <= 1
    /\ conn # Nil => open = {conn}
    /\ loopPc = "install" => conn = Nil /\ open = {dconn}

C2_Witness == dials >= 2 /\ conn = 2 /\ open = {2}

\* C3: when an established connection is lost while the scope is live the
\* client eventually dials again (or the scope is cancelled), and once the
\* peer has closed the first connection it eventually sees a second one.
C3_Reconnects ==
    /\ lost ~> (~lost \/ ctxDone)
    /\ (1 \in peerClosed) ~> (dials >= 2 \/ ctxDone)

C3_Witness == 1 \in peerClosed /\ dials >= 2 /\ ~ctxDone /\ ~lost

\* C4: once a Close() has returned, every send that begins returns
\* NotConnected.
C4_SendAfterClose ==
    [][\A t \in Senders :
          (closeReturned /\ SendCall(t)) =>
              (spc'[t] = "idle" /\ sres'[t] = "NotConnected")]_vars

\* C5: a client that was never connected has sent nothing, and a send that
\* begins while the client holds no open connection returns NotConnected
\* and leaves messagesSent as it was.
C5_SendNotConnected ==
    /\ [](~started => messagesSent = 0 /\ conn = Nil)
    /\ [][\A t \in Senders :
            (conn \notin open /\ SendCall(t)) =>
                /\ spc'[t] = "idle"
                /\ sres'[t] = "NotConnected"
                /\ messagesSent' = messagesSent]_vars

C5_Witness ==
    /\ sres["frame"] = "NotConnected" /\ sres["doa"] = "NotConnected"
    /\ dials >= 1 /\ conn = Nil /\ messagesSent = 0

\* Every goroutine of the client has returned and no handle is open.
Terminated ==
    /\ loopPc = "done"
    /\ \A p \in DOMAIN ping : ping[p].pc = "done"
    /\ open = {}

\* C6: after the scope is cancelled, the connection loop, the read task and
\* the ping tasks eventually terminate and the handle is closed.
C6_TerminatesAfterCancel == ctxDone ~> Terminated

\* After Close() has returned they do.
TerminatesAfterClose == closeReturned ~> Terminated

\* C7: handling a well-formed motor, emotion, speak or config message whose
\* callback is set invokes that callback once with the payload and nothing
\* else; callbacks are invoked by nothing else; handling a ping enters
\* SendMessage(pong), and a pong is written to no connection but the one
\* the loop reads from.
C7_DispatchByType ==
    /\ [][(loopPc = "handle" /\ loopPc' # "handle") =>
            /\ (inMsg.ok /\ inMsg.type \in Kinds \cap callbacks /\ inMsg.dataOk)
                  => calls' = Append(calls, <<inMsg.type, inMsg.payload>>)
            /\ (inMsg.ok /\ inMsg.type = "ping")
                  => (calls' = calls /\ loopPc' = "pong" /\ spc'[LoopTask] = "call")]_vars
    /\ [][calls' # calls => loopPc = "handle"]_vars
    /\ [][pongs' # pongs => pongs' = pongs \cup {rconn}]_vars

C7_Witness ==
    /\ callbacks = Kinds
    /\ calls = <<<<"emotion", 2>>>>
    /\ pongs = {1}


\* The Results the tracker makes observable: latest (GetLatest, Stats), the
\* history, and those buffered in the subscribers' channels.
Observable ==
    {latest} \cup {history[i] : i \in DOMAIN history}
             \cup UNION {{subs[ch][i] : i \in DOMAIN subs[ch]} : ch \in DOMAIN subs}

\* C8: every Result the tracker makes observable, the zero Result before the
\* first poll included, has a confidence between 0 and 1 (0 and 100 in the
\* model's units of 1/100), after any sequence of polls and under every
\* configuration of base, speaking bonus and stability bonus.
C8_ConfidenceInRange ==
    \A r \in Observable : 0 <= r.confidence /\ r.confidence <= 100

\* A poll under a configuration whose terms add up to more than 1, with the
\* speaking and the stability bonus both applied, has made a Result of
\* confidence 1.
C8_Witness ==
    /\ cfg.base + cfg.speakingBonus + cfg.stabilityBonus > 100
    /\ pollCount > StabilityWindow
    /\ Len(history) >= StabilityWindow
    /\ latest.latched
    /\ latest.confidence = 100

\* C9: a Result is latched if and only if its own reading is speaking or a
\* successfully polled reading that was speaking is less than the latch
\* duration older than it; so a tracker that never saw a speaking reading
\* is never latched.
C9_SpeakingLatched ==
    \A r \in Observable :
        r.latched <=> \/ r.speaking
                      \/ \E t \in spokeAt : t <= r.at /\ r.at - t < cfg.latchDur

\* After a speaking reading, a reading that is not speaking was latched
\* within the latch duration, and the next one, past it, is not latched.
C9_Witness ==
    /\ Len(history) >= 3
    /\ history[Len(history) - 2].speaking
    /\ ~history[Len(history) - 1].speaking /\ history[Len(history) - 1].latched
    /\ ~latest.speaking /\ ~latest.latched
    /\ latest.at - history[Len(history) - 2].at = cfg.latchDur

\* C10: the fan-out does not block the poller.  While Run is in its loop
\* a poll cycle can always be taken, whatever the channels hold; and the cycle that makes a Result
\* leaves a full channel (10 pending Results) as it is, dropping the Result
\* for that subscriber only, and appends the Result to every other channel.
C10_FanoutNonBlocking ==
    /\ [](runPc = "loop" /\ pollsLeft > 0 => ENABLED Poll)
    /\ [][pollCount' = pollCount + 1 =>
            /\ DOMAIN subs' = DOMAIN subs
            /\ \A ch \in DOMAIN subs :
                  IF Len(subs[ch]) = SinkCap
                    THEN subs'[ch] = subs[ch]
                    ELSE subs'[ch] = Append(subs[ch], latest')]_vars

\* A poll has dropped its Result for a subscriber whose channel is full, and
\* delivered it to another.
C10_Witness ==
    /\ pollCount > SinkCap
    /\ \E full, other \in DOMAIN subs :
          /\ Len(subs[full]) = SinkCap
          /\ subs[full][SinkCap].seq < pollCount
          /\ Len(subs[other]) > 0
          /\ subs[other][Len(subs[other])] = latest
          /\ latest.seq = pollCount


\* C11: under every interleaving of fan-out, Unsubscribe and Stop, a
\* channel is closed at most once, a channel that is closed is in t.subs no
\* more, so that no Result is sent on it, and Unsubscribe of a channel that
\* is already detached, after Stop too, changes nothing.
C11_UnsubscribeOnce ==
    /\ [](\A ch \in 1..MaxSubs :
            /\ closes[ch] <= 1
            /\ ch \in DOMAIN subs => closes[ch] = 0)
    /\ [][\A ch \in DOMAIN subs \cap DOMAIN subs' :
            Len(subs'[ch]) > Len(subs[ch]) => closes[ch] = 0]_vars
    /\ [][\A ch \in 1..MaxSubs :
            (ch \notin DOMAIN subs /\ Unsubscribe(ch)) =>
                UNCHANGED <<subs, closes, chanCount, latest, history,
                            pollCount, runPc, stopPc>>]_vars

\* After polls that fanned out, Stop has closed channel 1 and returned, and
\* an Unsubscribe of a detached channel has been called.
C11_Witness ==
    /\ stopReturned
    /\ pollCount >= 1
    /\ closes[1] = 1
    /\ noops >= 1


\* The return of a call of Stop() made when Run had been started.
StopReturns == stopSaw # "idle" /\ ~stopReturned /\ stopReturned'

\* C12: when Stop() is called on a tracker whose Run has been started as a
\* goroutine, then at the return of Stop() the poll loop has ended, every
\* channel that was attached is closed and t.subs is empty, and after it no
\* poll happens.
C12_StopTerminates ==
    /\ [][StopReturns =>
            /\ runPc' = "done"
            /\ subs' = << >>
            /\ \A ch \in 1..chanCount : closes'[ch] = 1]_vars
    /\ [][(stopSaw # "idle" /\ stopReturned /\ stopReturned') =>
            /\ pollCount' = pollCount
            /\ pollErrorCount' = pollErrorCount]_vars

\* The same, for the calls of Stop() made after Run has set t.cancel.
StopTerminatesAfterCancelSet ==
    /\ [][(StopReturns /\ stopSaw # "started") =>
            /\ runPc' = "done"
            /\ subs' = << >>
            /\ \A ch \in 1..chanCount : closes'[ch] = 1]_vars
    /\ [][(stopSaw \in {"loop", "done"} /\ stopReturned /\ stopReturned') =>
            /\ pollCount' = pollCount
            /\ pollErrorCount' = pollErrorCount]_vars


\* A poll cycle whose GetDOA returns an error.
FailedPollStep == src.err /\ pollsLeft' = pollsLeft - 1

\* C13: a poll whose GetDOA returns an error increments pollErrorCount by
\* one and changes nothing else: latest, history, pollCount and the time of
\* the last speech are as before and nothing is fanned out.  The error
\* does not end Run: the loop is still running after it, and Run ends only
\* when its context is cancelled.
C13_PollErrorOnlyCounts ==
    /\ [][FailedPollStep =>
            /\ pollErrorCount' = pollErrorCount + 1
            /\ UNCHANGED <<latest, history, pollCount, speakingLatchedAt,
                           subs, closes>>
            /\ runPc' = "loop"]_vars
    /\ [](runPc = "done" => runCtxDone)

\* After a poll that succeeded and was fanned out to a subscriber, a poll
\* has failed, Run is in its loop and not cancelled.
C13_Witness ==
    /\ pollErrorCount = 1
    /\ pollCount = 1
    /\ src.err
    /\ 1 \in DOMAIN subs
    /\ Len(subs[1]) = 1
    /\ runPc = "loop"
    /\ ~runCtxDone


\* min(a, b).
Least(a, b) == IF a < b THEN a ELSE b

\* C14: after every poll the history is no longer than HistorySize and
\* holds, in the order they were made, exactly the most recent
\* min(successful polls, HistorySize) Results: the oldest is the one
\* evicted.
C14_HistoryBounded ==
    /\ Len(history) <= cfg.historySize
    /\ Len(history) = Least(pollCount, cfg.historySize)
    /\ \A i \in DOMAIN history : history[i].seq = pollCount - Len(history) + i
    /\ Len(history) > 0 => history[Len(history)] = latest

\* More polls have succeeded than the history holds, and it holds the last
\* ones.
C14_Witness ==
    /\ cfg.historySize = 2
    /\ pollCount = 5
    /\ Len(history) = 2
    /\ history[1].seq = 4
    /\ history[2].seq = 5


\* A call of GetTarget(): the move of the tracker's callers that leaves
\* the source as it is.
GetTargetStep == changesLeft' = changesLeft - 1 /\ src' = src /\ target'.called

\* C15: GetTarget() returns the smoothed angle and the confidence of the
\* latest Result, and true, if and only if that confidence is at least the
\* configured base; otherwise it returns (0, 0, false).  Before the first
\* successful poll the latest Result is the zero Result.
C15_TargetIffConfident ==
    [][GetTargetStep =>
        /\ target'.ok <=> latest.confidence >= cfg.base
        /\ target'.ok =>
              /\ target'.angle = latest.smoothed
              /\ target'.confidence = latest.confidence
        /\ ~target'.ok => target'.angle = 0 /\ target'.confidence = 0]_vars

\* GetTarget() has returned a target whose confidence is just the base,
\* after a poll of a source in front.
C15_Witness ==
    /\ target.called
    /\ target.ok
    /\ pollCount >= 1
    /\ target.confidence = cfg.base
    /\ target.confidence > 0


\* A call of GetDOA() returns an error of its primary transfer.
PrimaryErrorStep ==
    usbLeft' = usbLeft - 1 /\ usbRes'.err \in PrimaryOutcomes \ {"ok"}

\* C16, as stated: healthy becomes false exactly when consecutiveErrors is
\* at least maxErrors, and once false becomes true on the next GetDOA()
\* that succeeds, not before.
C16_HealthyUntilSuccess ==
    /\ [][(usb.healthy /\ ~usb'.healthy) =>
            usb'.consecutiveErrors >= usbCfg.maxErrors]_vars
    /\ [][(PrimaryErrorStep /\ usb'.consecutiveErrors >= usbCfg.maxErrors) =>
            ~usb'.healthy]_vars
    /\ [][(~usb.healthy /\ usb'.healthy) => usbRes'.ok]_vars

\* C16, amended: healthy becomes false exactly when a recorded error brings
\* consecutiveErrors to maxErrors or more; once false, it becomes true in
\* the next GetDOA() that reopens the device, whether the read that follows
\* succeeds or not, and it is true after every GetDOA() that succeeds.
C16_HealthyAmended ==
    /\ [][(usb.healthy /\ ~usb'.healthy) =>
            usb'.consecutiveErrors >= usbCfg.maxErrors /\ PrimaryErrorStep]_vars
    /\ [][(PrimaryErrorStep /\ usb'.consecutiveErrors >= usbCfg.maxErrors) =>
            ~usb'.healthy]_vars
    /\ [][(~usb.healthy /\ usb'.healthy) => reopens' = reopens + 1]_vars
    /\ [][(~usb.healthy /\ ~usb'.healthy /\ reopens' = reopens + 1) =>
            ~usb'.dev \/ usb'.consecutiveErrors >= usbCfg.maxErrors]_vars
    /\ [][(usbLeft' = usbLeft - 1 /\ usbRes'.ok) =>
            usb'.healthy /\ usb'.consecutiveErrors = 0]_vars

\* The source, unhealthy after maxErrors errors, has reopened its device in
\* a GetDOA() whose primary transfer failed: it is healthy, with one error.
C16_Witness ==
    /\ reopens = 1
    /\ usb.healthy
    /\ usb.consecutiveErrors = 1
    /\ ~usbRes.ok
    /\ usbCfg.maxErrors = 2


\* C17: every call of Close() on the USB source returns nil, the second
\* and later ones too; and every GetDOA() after the first Close(), whatever
\* state the source was closed in, returns the error of a closed source
\* and makes neither a control transfer nor an attempt to reopen.
C17_CloseIdempotent ==
    /\ [](\A i \in DOMAIN closeRes : closeRes[i] = "nil")
    /\ [][(Len(closeRes) > 0 /\ usbLeft' = usbLeft - 1
              /\ Len(closeRes') = Len(closeRes)) =>
            /\ usbRes' = [NoReading EXCEPT !.err = "closed"]
            /\ transfers' = transfers
            /\ reopens' = reopens
            /\ usb' = usb]_vars
    /\ [](Len(closeRes) > 0 => usb.closed /\ ~usb.dev)

\* A source that had lost its device was closed twice, and a GetDOA()
\* after that returned the error of a closed source.
C17_Witness ==
    /\ Len(closeRes) = 2
    /\ usb.consecutiveErrors >= usbCfg.maxErrors
    /\ ~usb.healthy
    /\ usbRes.err = "closed"
    /\ usbLeft = 0


\* C18: a failure of either enhanced read does not fail the primary read.
\* A GetDOA() whose primary transfer succeeds returns a Reading, whatever
\* the two enhanced transfers do: the quantity whose transfer failed is
\* zero, consecutiveErrors is 0 and the source healthy as after any
\* success, and both enhanced transfers are made, the second also after a
\* first that failed.
C18_EnhancedBestEffort ==
    [][(usbLeft' = usbLeft - 1 /\ transfers' > transfers
            /\ usbSaw'.primary = "ok") =>
        /\ usbRes'.ok
        /\ usbRes'.err = "none"
        /\ usbRes'.energy = usbSaw'.e1
        /\ usbRes'.azimuths = usbSaw'.e2
        /\ usbRes'.enhanced = 2
        /\ transfers' = transfers + 3
        /\ usb'.consecutiveErrors = 0
        /\ usb'.healthy
        /\ usb'.dev]_vars

\* A GetDOA() has returned a Reading with the speech energy zero and the
\* azimuths filled: its first enhanced transfer failed, its second did not.
C18_Witness ==
    /\ usbRes.ok
    /\ ~usbSaw.e1 /\ usbSaw.e2
    /\ ~usbRes.energy /\ usbRes.azimuths
    /\ transfers >= 3


\* The vad messages broadcast, in order.
Vads == SelectSeq(bcast, LAMBDA m : m.type = "vad")

\* What a tick has broadcast.
Ticked == SubSeq(bcast', Len(bcast) + 1, Len(bcast'))

\* C19: on every tick of the hub a vad message is broadcast if and only if
\* the latch of the latest Result differs from lastSpeaking.  It is sent
\* after the doa message of that tick and carries the new latch, and
\* lastSpeaking is then the latch; so the vad messages alternate between
\* speaking and not speaking, and the first says speaking.
C19_VadOnChange ==
    /\ [][ticks' = ticks + 1 =>
            /\ Len(Ticked) \in {1, 2}
            /\ Ticked[1] = DoaMessage(latest, ticks')
            /\ Len(Ticked) = 2 <=> latest.latched # lastSpeaking
            /\ Len(Ticked) = 2 =>
                  /\ Ticked[2].type = "vad"
                  /\ Ticked[2].speaking = latest.latched
                  /\ Ticked[2].speaking # lastSpeaking
                  /\ Ticked[2].tick = ticks'
            /\ lastSpeaking' = latest.latched]_vars
    /\ [][ticks' = ticks => bcast' = bcast /\ lastSpeaking' = lastSpeaking]_vars
    /\ [](\A i \in DOMAIN Vads : Vads[i].speaking <=> i % 2 = 1)

\* Three vad messages have been broadcast, speaking, not speaking and
\* speaking, the second for a Result whose reading had stopped speaking
\* some polls before.
C19_Witness ==
    /\ Len(Vads) = 3
    /\ Vads[1].speaking /\ ~Vads[2].speaking /\ Vads[3].speaking
    /\ cfg.latchDur = 2
    /\ Vads[2].seq >= Vads[1].seq + 2

\* The return of a call of Close() made when Run had been started.
HubCloseReturns == hubCloseSaw # "idle" /\ ~hubCloseReturned /\ hubCloseReturned'

\* C20: after Close() of the hub has returned, in every interleaving with
\* Run starting and with observers attaching and detaching, the broadcast
\* loop has ended (no tick is taken any more), every observer that was
\* attached has been closed, and h.clients is empty.
C20_HubCloseTerminates ==
    /\ [][HubCloseReturns =>
            /\ hubPc' = "done"
            /\ clients \subseteq connClosed']_vars
    /\ [][(hubCloseSaw # "idle" /\ hubCloseReturned /\ hubCloseReturned') =>
            ticks' = ticks]_vars
    /\ [](hubCloseReturned /\ hubCloseSaw # "idle" => clients = {})

\* The same for the calls of Close() made after Run has set h.cancel, and
\* without the emptiness of h.clients after the return.
HubCloseTerminatesAfterCancelSet ==
    /\ [][(HubCloseReturns /\ hubCloseSaw # "started") =>
            /\ hubPc' = "done"
            /\ clients' = {}
            /\ clients \subseteq connClosed']_vars
    /\ [][(hubCloseSaw \in {"loop", "done"} /\ hubCloseReturned /\ hubCloseReturned') =>
            ticks' = ticks]_vars

\* h.clients is empty whenever Close() has returned.  This does not hold:
\* a connection upgraded before Close() attaches after it.
HubEmptyAfterClose ==
    hubCloseReturned /\ hubCloseSaw \in {"loop", "done"} => clients = {}

\* The step of UpgradeHandler that serves a plain GET.
PlainGetStep ==
    /\ Len(httpLog') = Len(httpLog) + 1
    /\ ~httpLog'[Len(httpLog')].req.upgrade

\* C21: a plain (non-upgrade) GET to the streaming endpoint is answered
\* with status 426 and a JSON body with the keys error and message, and it
\* adds no observer: no connection is made, no handler started, and
\* h.clients is as it was.
C21_UpgradeRequired ==
    /\ [][PlainGetStep =>
            /\ httpLog'[Len(httpLog')].res.status = 426
            /\ httpLog'[Len(httpLog')].res.keys = {"error", "message"}
            /\ clients' = clients
            /\ connCount' = connCount
            /\ handlerPc' = handlerPc]_vars
    /\ [](Cardinality(clients) <= connCount
            /\ connCount = Cardinality({i \in DOMAIN httpLog : httpLog[i].req.upgrade}))

\* A plain GET has been answered while an observer was attached and a
\* second connection could still be made.
C21_Witness ==
    /\ \E i \in DOMAIN httpLog :
          /\ ~httpLog[i].req.upgrade
          /\ httpLog[i].res.status = 426
          /\ \E j \in 1..(i - 1) : httpLog[j].req.upgrade
    /\ clients # {}
    /\ connCount < MaxConns

\* json.Marshal's treatment of a string that is not valid UTF-8: every
\* invalid byte becomes U+FFFD.
ToValidUTF8(s) == [i \in 1..Len(s) |-> IF s[i] = "bad" THEN "fffd" ELSE s[i]]

\* The EmotionCommand a payload stands for: a nil payload leaves the zero
\* value.
Given(p) ==
    IF p.isNil THEN ZeroEmotion
    ELSE [name |-> ToValidUTF8(p.name), duration |-> p.duration]

\* C22: for every message type and every payload, parsing the serialized
\* form of the message NewMessage made succeeds and gives a message of the
\* same type and with the same data, byte for byte (and here the same
\* timestamp too); the payload extracted from it is the payload extracted
\* from the message itself, which is the payload given.
C22_RoundTrip ==
    codecPc = "done" =>
        /\ codecParsed.ok
        /\ codecParsed.msg.type = codecMsg.type
        /\ codecParsed.msg.data = codecMsg.data
        /\ codecParsed.msg.ts = codecMsg.ts
        /\ codecMsg.type = codecIn.type
        /\ GetEmotionCommand(codecParsed.msg) = GetEmotionCommand(codecMsg)
        /\ GetEmotionCommand(codecMsg) = Given(codecIn.payload)

\* The round trip is done of a message whose payload has two escaped
\* characters and a field that is left out.
C22_Witness ==
    /\ codecPc = "done"
    /\ codecParsed.ok
    /\ codecIn.type = "emotion"
    /\ codecIn.payload.name = <<"<", "\"">>
    /\ codecIn.payload.duration = 0
    /\ Len(codecParsed.msg.data) > Len(Marshal(ZeroEmotion))

\* The round trip of a ping, which has no data.
RoundTripWithoutData ==
    /\ codecPc = "done"
    /\ codecParsed.ok
    /\ codecIn.payload.isNil
    /\ codecIn.type = "ping"

\* The value NormalizeAngle returned differs from the angle given by a
\* whole multiple of 2 pi.
SameDirection == (normIn - normOut) % TwoPi = 0

\* C23 as stated: for every angle a, NormalizeAngle(a) is in the half-open
\* interval (-pi, pi] and differs from a by a whole multiple of 2 pi.
C23_NormalizeHalfOpen ==
    (normDone /\ normIn \in Angles) =>
        /\ -Pi < normOut
        /\ normOut <= Pi
        /\ SameDirection

\* C23, amended: NormalizeAngle(a) is in the closed interval [-pi, pi] and
\* differs from a by a whole multiple of 2 pi; an angle already in the
\* interval is returned as it is; -pi is returned exactly for -pi and the
\* angles a whole multiple of 2 pi below it.
C23_NormalizeClosed ==
    (normDone /\ normIn \in Angles) =>
        /\ -Pi <= normOut
        /\ normOut <= Pi
        /\ SameDirection
        /\ (-Pi <= normIn /\ normIn <= Pi) => normOut = normIn
        /\ normOut = -Pi <=> (normIn < 0 /\ (normIn + Pi) % TwoPi = 0)

\* -3 pi has been normalized, to -pi.
C23_Witness ==
    /\ normDone
    /\ normIn = -Pi - TwoPi
    /\ normOut = -Pi

\* connect() is entered: the dial that follows the loss of a connection
\* is begun.
RedialStep == lost /\ loopPc = "top" /\ loopPc' = "dial"

\* C24: each time an established connection is lost while the scope is
\* live, the client has closed the handle and, before it dials again, has
\* incremented reconnects by one and waited out the backoff, which it
\* leaves doubled (capped at MaxBackoff).
C24_BackoffBeforeRedial ==
    [][RedialStep =>
          /\ open = {}
          /\ reconnects = lostAt.reconnects + 1
          /\ backoff = Min(2 * lostAt.backoff, ccfg.maxBackoff)]_vars

\* The handle is closed before the dial that follows a loss.
ClosedBeforeRedial == [][RedialStep => open = {} /\ conn = Nil]_vars

\* SendMessage of task t, after a failed write, runs closeConnection while
\* the client holds another connection than the one t wrote to.
StaleCloseStep(t) ==
    /\ spc[t] = "closing"
    /\ spc'[t] # "closing"
    /\ conn # Nil
    /\ sconn[t] # conn

\* C25: a write error in SendMessage closes only the connection the write
\* was attempted on: when the client has reconnected since the sender took
\* its handle, the failure on the old handle neither closes the newer
\* connection nor marks the client disconnected.
C25_WriteErrorClosesOwn ==
    [][\A t \in Tasks :
          StaleCloseStep(t) =>
              /\ conn' = conn
              /\ connected' = connected
              /\ open' = open]_vars

\* The same for a sender whose handle is still the one the client holds:
\* that connection is closed and the client marked disconnected.
WriteErrorClosesCurrent ==
    [][\A t \in Tasks :
          (spc[t] = "closing" /\ spc'[t] # "closing" /\ sconn[t] = conn) =>
              /\ conn' = Nil
              /\ ~connected'
              /\ open' = open \ {sconn[t]}]_vars

\* The ping tasks that have not returned.
AlivePings == {p \in DOMAIN ping : ping[p].pc # "done"}

\* C26: there is a single ping task per connected session: at most one
\* ping task is alive at a time, and the ping task started by the p-th
\* connect() writes pings to no connection but the p-th.
C26_SinglePingTask ==
    /\ Cardinality(AlivePings) <= 1
    /\ \A p \in DOMAIN ping : ping[p].pc = "write" => ping[p].conn = p

\* Every connect() that succeeded started one ping task, and a ping task
\* writes to the connection the client held at its tick.
PingTaskPerConnect ==
    /\ Len(ping) \in {dials, dials - 1}
    /\ loopPc # "install" => Len(ping) = dials
    /\ [][\A p \in DOMAIN ping :
            (ping[p].pc = "wait" /\ ping'[p].pc = "write") => ping'[p].conn = conn]_vars

\* No ping task writes to a connection made after the one it was started
\* for.  This does not hold either: the task reads c.conn at every tick.
PingOwnSession == \A p \in DOMAIN ping : ping[p].pc = "write" => ping[p].conn = p

\* C27: handleMessage copies the callback slots under c.mu and calls the
\* callback with c.mu released.  So the read goroutine never holds c.mu
\* while a callback runs; a message that is being handled is eventually
\* handled to the end, whatever the callback calls (SendMessage,
\* IsConnected, a setter), and a setter called from another goroutine
\* eventually returns; and the callback called is the one that was
\* registered for the kind when the copies were made.
C27_SnapshotThenInvoke ==
    /\ [](hmPc \in {"switch", "callback"} => mu # "read")
    /\ (hmPc # "idle") ~> (hmPc = "idle")
    /\ (setPc # "idle") ~> (setPc = "idle")
    /\ [][invoked' # invoked =>
            /\ slotsAtSnap[hmMsg] # Nil
            /\ invoked' = Append(invoked, <<hmMsg, slotsAtSnap[hmMsg]>>)]_vars

\* A callback has replaced itself through the setter, a setter on another
\* goroutine has replaced a slot after the copies were made and before the
\* call, and the callback called was the one copied.
C27_Witness ==
    /\ hmPc = "idle"
    /\ setPc = "idle"
    /\ Len(invoked) = 2
    /\ invoked[1] = <<"motor", 1>>
    /\ invoked[2] = <<"motor", 2>>
    /\ slots["motor"] = 1
    /\ slotsAtSnap["motor"] = 2

\* A message handleMessage drops: it does not parse, or it is of a kind
\* whose payload does not unmarshal or whose callback is not set.
Dropped(m, cbs) ==
    \/ ~m.ok
    \/ m.type \in Kinds /\ (~m.dataOk \/ m.type \notin cbs)

\* C28: an inbound message that fails to parse, whose payload fails to
\* unmarshal or whose callback is not set is dropped and nothing else
\* happens: no callback is called, the connection stays installed and
\* open, the client stays connected, no reconnect is counted or begun,
\* and the read task goes on to its next read.
C28_DroppedKeepsConnection ==
    [][(loopPc = "handle" /\ loopPc' # "handle" /\ Dropped(inMsg, callbacks)) =>
          /\ calls' = calls
          /\ conn' = conn
          /\ connected' = connected
          /\ open' = open
          /\ reconnects' = reconnects
          /\ dials' = dials
          /\ lost' = lost
          /\ loopPc' = "readTop"]_vars

\* A client with the motor callback alone has received three messages on
\* its first connection, none of them a ping, has called no callback, and
\* is connected and reading on that connection.
C28_Witness ==
    /\ callbacks = {"motor"}
    /\ messagesReceived = 3
    /\ calls = << >>
    /\ pongs = {}
    /\ spc[LoopTask] = "idle"
    /\ connected
    /\ conn = 1
    /\ open = {1}
    /\ dials = 1
    /\ reconnects = 0
    /\ loopPc = "read"

\* The delay of a failed attempt has been waited out.
DelayElapsed == loopPc = "backoff" /\ loopPc' = "top"

\* connect() has succeeded: the connection is installed.
Connected == loopPc = "install" /\ loopPc' = "readTop"

\* The backoff starts at ReconnectBackoff, is doubled (capped at
\* MaxBackoff) after each failed attempt, is reset to ReconnectBackoff on
\* every successful connection, and changes at no other step.
BackoffSteps ==
    /\ [](~started => backoff = ccfg.reconnectBackoff)
    /\ [][DelayElapsed => backoff' = Min(2 * backoff, ccfg.maxBackoff)]_vars
    /\ [][Connected => backoff' = ccfg.reconnectBackoff]_vars
    /\ [][(~DelayElapsed /\ ~Connected) => backoff' = backoff]_vars

GuardSpecInit ==
    /\ CloudIdle
    /\ TrackerIdle
    /\ UsbIdle
    /\ HubIdle
    /\ CodecIdle
    /\ AngleIdle
    /\ LockIdle
    /\ GuardInit
    /\ loopsLeft = MaxGuardLoops
    /\ callsLeft = MaxGuardCalls

GuardNext ==
    \/ \E task \in Callers : Call(task)
    \/ \E p \in {PollProgram, PollFailedProgram} : RunTick(p)
    \/ GuardRunExit
    \/ \E task \in GuardTasks : Acquire(task)
    \/ \E task \in GuardTasks : AcquireShared(task)
    \/ \E task \in GuardTasks : Release(task)
    \/ \E task \in GuardTasks : ReleaseShared(task)
    \/ \E task \in GuardTasks : CancelRun(task)
    \/ \E task \in GuardTasks : WaitDone(task)
    \/ \E task \in GuardTasks : CloseDone(task)

GuardSpec == GuardSpecInit /\ [][GuardNext]_vars

\* A Result an observer can hold: the zero Result, or one that poll() stored.
Complete(r) == r = ZeroResult \/ r \in made

\* What Stats() returned is read from one state between two polls.
StatsOfOnePoll ==
    \E r \in made \cup {ZeroResult} :
        /\ r.seq = stats.pollCount
        /\ r.latched = stats.latched
        /\ r.smoothed = stats.angle
        /\ r.confidence = stats.confidence
        /\ stats.historySize = Min(r.seq, cfg.historySize)

\* What GetTarget() returned is taken from one Result.
TargetOfOnePoll ==
    target.called =>
        \E r \in made \cup {ZeroResult} :
            IF target.ok
              THEN /\ r.confidence >= cfg.base
                   /\ target.angle = r.smoothed
                   /\ target.confidence = r.confidence
              ELSE r.confidence < cfg.base

\* C30: poll() replaces the latch, the smoothed angle, the confidence,
\* latest and history in one critical section that ends after the fan-out:
\* what GetLatest(), GetTarget(), Stats() and the subscribers' channels give
\* is the zero Result or the whole Result of one poll, the fan-out sends the
\* Result that is already latest and in history, and a call of GetLatest()
\* returns a Result that is not older than the one a subscriber has received.
C30_AtomicPoll ==
    /\ [](/\ Complete(got.r)
          /\ Complete(recv)
          /\ \A ch \in DOMAIN subs : \A i \in 1..Len(subs[ch]) : Complete(subs[ch][i])
          /\ StatsOfOnePoll
          /\ TargetOfOnePoll)
    /\ [][pollPc = "appended" /\ pollPc' = "notified" =>
            /\ tmu = "poll"
            /\ latest \in made
            /\ latest.seq = pollCount
            /\ \A ch \in DOMAIN subs :
                  subs'[ch] # subs[ch] => subs'[ch] = Append(subs[ch], latest)]_vars
    /\ [][got'.n # got.n => got'.r.seq >= recv.seq]_vars

\* A subscriber has received the Result of the first poll, and after the
\* second poll GetLatest(), Stats() and GetTarget() were called.
C30_Witness ==
    /\ pollPc = "idle"
    /\ recv.seq = 1
    /\ got.n = 1
    /\ got.r.seq = 2
    /\ stats.n = 1
    /\ stats.pollCount = 2
    /\ target.called

\* The last StabilityWindow entries of history all have the smoothed angle v.
StableWindow(v) ==
    /\ Len(history) >= StabilityWindow
    /\ \A i \in (Len(history) - StabilityWindow + 1)..Len(history) :
          history[i].smoothed = v

\* A poll stores a Result.
StoreStep == pollCount' = pollCount + 1

\* The sum of the terms of the confidence of a Result with the stability
\* bonus.
StableSum(r) ==
    cfg.base + cfg.stabilityBonus + (IF r.latched THEN cfg.speakingBonus ELSE 0)

\* C31, as stated: when the last 5 entries of history have the same smoothed
\* angle, the confidence of the next Result is at least base +
\* stability_bonus, plus speaking_bonus when that Result is latched.
C31_StableWindowBonus ==
    [][\A v \in {history[i].smoothed : i \in DOMAIN history} :
          StoreStep /\ StableWindow(v) =>
              latest'.confidence >= StableSum(latest')]_vars

\* C31, amended: when the last 5 entries of history have the same smoothed
\* angle v and the next Result's smoothed angle is less than 0.1 rad from v,
\* the confidence of the next Result is base + stability_bonus, plus
\* speaking_bonus when latched, clamped to [0, 1].
C31_StableWindowAmended ==
    [][\A v \in {history[i].smoothed : i \in DOMAIN history} :
          /\ StoreStep
          /\ StableWindow(v)
          /\ StabilityWindow * (latest'.smoothed - v) * (latest'.smoothed - v)
                < VarianceSumLimit
          => latest'.confidence = Clamp(StableSum(latest'), 0, 100)]_vars

\* Six polls of a steady source: the sixth Result was made over five equal
\* entries, and its confidence is the unclamped sum with the bonus.
C31_Witness ==
    /\ Len(history) = StabilityWindow + 1
    /\ \A i \in DOMAIN history : history[i].smoothed = latest.smoothed
    /\ latest.confidence = StableSum(latest)
    /\ latest.confidence < 100
    /\ cfg.stabilityBonus > 0

\* The Result of the first successful poll.
FirstResult == CHOOSE r \in made : r.seq = 1

\* C32, as stated: with ema_alpha = 0, under every configuration, the
\* smoothed angle of every Result is the angle of the first successful
\* reading.
C32_AlphaZeroFreezes ==
    cfg.alpha = 0 => \A r \in made : r.smoothed = FirstResult.angle

\* C32, amended: with ema_alpha = 0 and a history of at least one entry the
\* smoothed angle of every Result is the angle of the first successful
\* reading; with a history of no entries it is the Result's own angle.
C32_AlphaZeroAmended ==
    cfg.alpha = 0 =>
        \A r \in made :
            r.smoothed = IF cfg.historySize >= 1 THEN FirstResult.angle ELSE r.angle

\* With ema_alpha = 0 and a history, the third Result, of a reading at
\* another angle than the first, has the first reading's angle as its
\* smoothed angle.
C32_Witness ==
    /\ cfg.alpha = 0
    /\ cfg.historySize >= 1
    /\ \E r \in made :
          /\ r.seq = 3
          /\ r.angle # FirstResult.angle
          /\ r.smoothed = FirstResult.angle

\* The Result poll() made before r.
PrevResult(r) == CHOOSE p \in made : p.seq = r.seq - 1

\* The EMA of a reading's angle and the previous smoothed angle, in units
\* of 1/100.
Ema(alpha, angle, prev) == (alpha * angle + (100 - alpha) * prev) \div 100

\* C33, as stated: the first successful poll yields smoothed =
\* reading.angle, and every later one alpha * reading.angle + (1 - alpha) *
\* the previous Result's smoothed angle; so with alpha 0.5 and angles a, b
\* the smoothed angle after b is 0.5 b + 0.5 a, and with alpha 1 it is the
\* reading's angle on every cycle.
C33_EmaLaw ==
    \A r \in made :
        /\ r.seq = 1 => r.smoothed = r.angle
        /\ r.seq > 1 => r.smoothed = Ema(cfg.alpha, r.angle, PrevResult(r).smoothed)
        /\ r.seq = 2 /\ cfg.alpha = 50 =>
              r.smoothed = (50 * r.angle + 50 * FirstResult.angle) \div 100
        /\ cfg.alpha = 100 => r.smoothed = r.angle

\* C33, amended: the law holds with a history of at least one entry; with a
\* history of no entries every poll yields smoothed = reading.angle.
C33_EmaLawAmended ==
    \A r \in made :
        /\ r.seq = 1 => r.smoothed = r.angle
        /\ r.seq > 1 /\ cfg.historySize >= 1 =>
              r.smoothed = Ema(cfg.alpha, r.angle, PrevResult(r).smoothed)
        /\ r.seq = 2 /\ cfg.alpha = 50 /\ cfg.historySize >= 1 =>
              r.smoothed = (50 * r.angle + 50 * FirstResult.angle) \div 100
        /\ cfg.alpha = 100 => r.smoothed = r.angle
        /\ cfg.historySize = 0 => r.smoothed = r.angle

\* With alpha 0.5 and a history, the second Result, of a reading at another
\* angle than the first, lies between the two angles.
C33_Witness ==
    /\ cfg.alpha = 50
    /\ cfg.historySize >= 1
    /\ \E r \in made :
          /\ r.seq = 2
          /\ r.angle # FirstResult.angle
          /\ r.smoothed = (50 * r.angle + 50 * FirstResult.angle) \div 100
          /\ r.smoothed # r.angle
          /\ r.smoothed # FirstResult.angle

\* An access of a field is made by a task that holds the field's lock.
UnderItsLock(a) ==
    /\ a.field \in {"latest", "history", "counters"} => a.tmu
    /\ a.field = "subs" => a.subsMu

\* C34: latest, history and the counters are read and written only by a
\* task that holds t.mu, and the subscriber set only by one that holds
\* t.subsMu.
C34_FieldsUnderTheirLock == \A a \in touched : UnderItsLock(a)

\* What holds of C34: every write of latest, history, the counters and the
\* subscriber set is made under the field's lock, and so is every access
\* other than Stats' len(t.subs) and Run's log of the counters at its exit.
WritesUnderTheirLock ==
    \A a \in touched :
        a.kind = "write" \/ a.task \notin {"stats", "run"} => UnderItsLock(a)

\* Some call is in progress.
InCall == \E task \in GuardTasks : gpc[task] # 0

\* C35: while a call of the tracker or of the source is in progress, some
\* task can take a step: no set of tasks waits for each other's mutexes,
\* and Stop's wait for t.done ends.
C35_NoDeadlock ==
    InCall => ENABLED (GuardRunExit \/ \E task \in GuardTasks : Exec(task))

\* Stats holds t.mu shared and waits for u.mu, which Close holds, while
\* poll() is blocked in t.mu.Lock().
C35_Witness ==
    /\ Holds("stats", "t.mu")
    /\ "stats" \in pending["u.mu"]
    /\ held["u.mu"].w = "close"
    /\ "run" \in pending["t.mu"]

\* C36: after a GetDOA whose primary read succeeded, consecutiveErrors is 0
\* and the reconnect backoff is the initial backoff of the source's
\* configuration.
C36_SuccessResetsBackoff ==
    usbRes.ok =>
        /\ usb.consecutiveErrors = 0
        /\ usb.reconnectBackoff = usbCfg.initialBackoff

\* What holds of C36: after a GetDOA whose primary read succeeded,
\* consecutiveErrors is 0, the source is healthy, and the backoff is the
\* initial backoff of the default configuration.
SuccessResetsToDefault ==
    usbRes.ok =>
        /\ usb.consecutiveErrors = 0
        /\ usb.healthy
        /\ usb.reconnectBackoff = DefaultUSBSourceConfig.initialBackoff

\* reconnect returns the error of openDevice.
ReopenFailedStep ==
    /\ usbPc = "sleep"
    /\ usbPc' = "idle"
    /\ usbRes'.err = "reopen"

\* Each GetDOA whose reopen fails has slept the backoff it found and leaves
\* it doubled, capped at the maximum.
SleepThenDouble ==
    [][ReopenFailedStep =>
          /\ slept = usb.reconnectBackoff
          /\ reopens' = reopens + 1
          /\ usb'.reconnectBackoff = Min(2 * usb.reconnectBackoff, usbCfg.maxBackoff)]_vars

C38_SleepCancellable ==
    [][usbPc = "sleep" /\ usbCtxDone /\ usbPc' = "idle" =>
          /\ reopens' = reopens
          /\ ~usbRes'.ok]_vars

\* What holds of C38: the sleep ends only by its delay, and the call then
\* attempts the reopen whatever the context is.
SleepEndsInReopen ==
    [][usbPc = "sleep" /\ usbPc' = "idle" => reopens' = reopens + 1]_vars

\* broadcast waits in WriteMessage for an observer that does not read.
BlockedOn(c) == bcPc = "write" /\ bcCur = c /\ c \in slow

\* C39: while broadcast's write to a slow observer cannot complete, the
\* message can be written to the other observers, the next tick can be
\* taken, and the other observers can attach and detach.
C39_NonBlockingBroadcast ==
    \A c \in 1..MaxConns :
        BlockedOn(c) =>
            /\ \A d \in bcTodo : ENABLED BroadcastWrite(d)
            /\ ticks < MaxTicks => ENABLED BroadcastLock
            /\ \A d \in 1..MaxConns \ {c} :
                  /\ handlerPc[d] = "attach" => ENABLED HubAttach(d)
                  /\ handlerPc[d] = "detach" => ENABLED HubDetach(d)

\* What holds of C39: while broadcast waits for a slow observer, no write
\* to another observer begins, no tick is taken and no observer attaches or
\* detaches.
SlowObserverBlocksHub ==
    [][(\E c \in 1..MaxConns : BlockedOn(c)) =>
          /\ delivered' = delivered
          /\ ticks' = ticks
          /\ clients' = clients
          /\ bcTodo' = bcTodo]_vars

\* The tasks in a write call on the observer's socket.
HubWritersOn(c) ==
    (IF bcPc = "write" /\ bcCur = c THEN {"run"} ELSE {}) \cup
    (IF handlerPc[c] = "reply" THEN {"handler"} ELSE {})

\* C40: at most one task is in a write call on an observer's socket.
C40_HubWritesSerialized ==
    \A c \in 1..MaxConns : Cardinality(HubWritersOn(c)) <= 1

\* What holds of C40: the writes of broadcast do not overlap each other.
BroadcastWritesOneAtATime ==
    /\ bcPc = "write" <=> bcCur # 0
    /\ bcCur \notin bcTodo

====
